---- MODULE Spec2Model ----
(***************************************************************************)
(* Kjer desktop application (src/desktop/main.js): the installation /      *)
(* activation state kept in localStorage and under ~/.kjer, the scan       *)
(* engine (performComprehensiveScan), the defend engine                    *)
(* (activateSmartDefense) and the setTimeout queue that drives both.       *)
(*                                                                         *)
(* Time is counted in milliseconds; the clock advances in steps of 50 ms,  *)
(* the greatest common divisor of every setTimeout delay of the source.    *)
(* A timer whose remaining delay is 0 fires before the clock advances;     *)
(* timers due at the same instant fire in registration order.              *)
(*                                                                         *)
(* The catalog TOOLS_DATABASE is modelled by a subsequence of its 28       *)
(* entries, in declaration order: scanners of three scan phases (two of    *)
(* them in one phase), a SIEM, a firewall, and a tool that has no role.    *)
(***************************************************************************)
EXTENDS Integers, Sequences, FiniteSets, TLC

\* ------------------------------------------------------------------ bounds
\* scans started (that pass both abort checks) in one behaviour
MaxScans == 2
\* defend runs started in one behaviour
MaxDefends == 1
\* flagged findings the random probes produce in one scan
MaxFindings == 2
\* runs (scans and defends) started in one behaviour that may overlap
MaxOverlapRuns == 2
\* suspended calls and gate timers pending when the user starts an operation
MaxPending == 1

\* --------------------------------------------------------- program constants
ScanInitialDelay == 400
ScanSectionGap == 300
ScanProbeGap == 550
ScanPhaseGap == 200
ScanSummaryGap == 400

\* null: as a reference to a scan object, and as the finding a probe returns
NULL == 0
NoFinding == << >>

\* ------------------------------------------------------------------ catalog
\* Keys of TOOLS_DATABASE in declaration order (modelled subsequence).
TOOLS_DATABASE ==
    << "windows-defender", "suricata", "ghidra", "volatility", "splunk",
       "clamav", "ufw" >>

\* TOOLS_DATABASE[key].name
ToolName(key) ==
    CASE key = "windows-defender" -> "Windows Defender"
      [] key = "suricata"         -> "Suricata"
      [] key = "ghidra"           -> "Ghidra"
      [] key = "volatility"       -> "Volatility"
      [] key = "splunk"           -> "Splunk Enterprise"
      [] key = "clamav"           -> "ClamAV"
      [] key = "ufw"              -> "UFW"
      [] OTHER                    -> key

CatalogKeys == { TOOLS_DATABASE[i] : i \in 1..Len(TOOLS_DATABASE) }
CatalogNames == { ToolName(k) : k \in CatalogKeys }

\* Tool-role registry.
TOOL_ROLES ==
    [ network_scan    |-> << "wireshark", "suricata", "zeek" >>,
      vuln_scan       |-> << "nessus", "openvas", "gvm" >>,
      malware_scan    |-> << "clamav", "rkhunter", "chkrootkit", "malwarebytes",
                             "windows-defender", "kaspersky" >>,
      integrity_scan  |-> << "aide", "tripwire" >>,
      memory_scan     |-> << "volatility" >>,
      compliance_scan |-> << "lynis", "cis-cat", "osquery", "auditd", "tiger" >>,
      siem            |-> << "splunk", "elastic-stack" >>,
      firewall        |-> << "ufw", "apparmor", "selinux" >>,
      ips             |-> << "suricata", "fail2ban" >>,
      av_remediate    |-> << "clamav", "malwarebytes", "windows-defender",
                             "kaspersky", "rkhunter", "chkrootkit" >> ]

Range(s) == { s[i] : i \in 1..Len(s) }

VARIABLES
    \* localStorage
    toolFlag,             \* 'tool_undefined_installed' === 'true'
    installedToolsLS,     \* 'installedTools': the tool names it holds
    systemAnalysis,       \* the system analysis file: the keys it reports installed
    kterInitialized,      \* 'kterInitialized' === 'true'
    kterActivated,        \* 'kterActivated' === 'true'
    kterLicenseKey,       \* 'kterLicenseKey', "" when absent
    kterLicenseType,      \* 'kterLicenseType', "" when absent
    kterVersion,          \* 'kterVersion', "" when absent
    userOS,               \* 'userOS', "" when absent
    \* files under ~/.kjer
    diskInitialized,      \* ~/.kjer/initialized exists
    installState,         \* install_state.json: "" when absent, else its os
    licenseFile,          \* license_key.json: "" when absent, else its key
    \* renderer process
    activationStatus,     \* what #activationStatus shows
    KjerLastScanResults,  \* window.KjerLastScanResults: NULL or a scan object
    scans,                \* the scan objects: results and closure of each scan
    defends,              \* the closures of the defend runs
    timers,               \* pending setTimeout callbacks, in firing order
    calls,                \* async functions suspended at an await
    monitor,              \* SecurityMonitor.entries, oldest first
    activity,             \* the entry logActivity added last
    probe,                \* what Math.random yields: "random" or a fixed stub
    \* the backend (lib/backend_api.py) and the Windows CLI process
    backendActivated,     \* what check-activation reports as activated
    backendOS,            \* what system-status reports as detected_os
    cliPc,                \* where the CLI process is: "off" when none runs
    cliCmd,               \* $args[0] of the CLI process
    cliOut,               \* the message the CLI wrote last
    cliExit,              \* its exit code, NoExit while it runs
    cliResult             \* what Invoke-BackendAPI returned last, and from what

toolVars == << toolFlag, installedToolsLS, systemAnalysis >>
licenseVars == << kterActivated, kterLicenseKey, kterLicenseType, kterVersion, licenseFile >>
gateVars ==
    << kterInitialized, userOS, diskInitialized, installState, licenseVars,
       activationStatus >>
engineVars == << KjerLastScanResults, scans, defends, timers, monitor >>
cliVars ==
    << backendActivated, backendOS, cliPc, cliCmd, cliOut, cliExit, cliResult >>

vars == << toolVars, gateVars, engineVars, calls, activity, probe, cliVars >>

\* --------------------------------------------------------- installed tools
\* Variant: every catalog tool counts as installed.
getInstalledToolsAll == { ToolName(TOOLS_DATABASE[i]) : i \in 1..Len(TOOLS_DATABASE) }

\* The definition of getInstalledTools in force (the later of the two
\* function declarations): every catalog tool has tool.id undefined, so all
\* of them read the one key 'tool_undefined_installed'.
getInstalledTools ==
    { ToolName(TOOLS_DATABASE[i]) :
        i \in { j \in 1..Len(TOOLS_DATABASE) : toolFlag } }

\* wanted = new Set(roleKeys.flatMap(r => TOOL_ROLES[r] || []))
Wanted(roleKeys) == UNION { Range(TOOL_ROLES[r]) : r \in roleKeys }

\* Variant: the tools in the order of the TOOL_ROLES lists.
getToolsByRoleInRoleOrder(roleKeys) ==
    LET listed == TOOL_ROLES.malware_scan \o TOOL_ROLES.network_scan
                  \o TOOL_ROLES.vuln_scan \o TOOL_ROLES.integrity_scan
                  \o TOOL_ROLES.memory_scan \o TOOL_ROLES.compliance_scan
                  \o TOOL_ROLES.siem \o TOOL_ROLES.firewall \o << "fail2ban" >>
    IN  SelectSeq(listed, LAMBDA k : /\ k \in CatalogKeys
                                     /\ ToolName(k) \in getInstalledTools
                                     /\ k \in Wanted(roleKeys))

\* Variant: the firewall tools are matched whatever roles are asked for.
getToolsByRoleOrFirewall(roleKeys) ==
    SelectSeq(TOOLS_DATABASE,
              LAMBDA k : /\ ToolName(k) \in getInstalledTools
                         /\ k \in Wanted(roleKeys \cup { "firewall" }))

\* Installed catalog keys holding one of the roles, in catalog order.
getToolsByRole(roleKeys) ==
    SelectSeq(TOOLS_DATABASE,
              LAMBDA k : ToolName(k) \in getInstalledTools /\ k \in Wanted(roleKeys))

\* ------------------------------------------------------------ timer queue
\* setTimeout(cb, delay): the queue is kept in firing order, a new timer after
\* every pending timer that is due no later than it.
setTimeout(q, t) ==
    LET k == Cardinality({ i \in 1..Len(q) : q[i].delay <= t.delay })
    IN  SubSeq(q, 1, k) \o << t >> \o SubSeq(q, k + 1, Len(q))

RECURSIVE setTimeouts(_, _)
setTimeouts(q, ts) ==
    IF ts = << >> THEN q ELSE setTimeouts(setTimeout(q, Head(ts)), Tail(ts))

Timer(delay, kind, run, phase, tool) ==
    [ delay |-> delay, kind |-> kind, run |-> run, phase |-> phase, tool |-> tool ]

\* ------------------------------------------------------------- scan engine
ScanPhaseTable ==
    << [ name |-> "NETWORK ANALYSIS",   roles |-> { "network_scan" } ],
       [ name |-> "VULNERABILITY SCAN", roles |-> { "vuln_scan" } ],
       [ name |-> "MALWARE & EDR",      roles |-> { "malware_scan" } ],
       [ name |-> "FILE INTEGRITY",     roles |-> { "integrity_scan" } ],
       [ name |-> "MEMORY FORENSICS",   roles |-> { "memory_scan" } ],
       [ name |-> "COMPLIANCE & AUDIT", roles |-> { "compliance_scan" } ],
       [ name |-> "SIEM & LOG INGEST",  roles |-> { "siem" } ] >>

\* const phases = { 'NETWORK ANALYSIS': getToolsByRole(['network_scan']), ... }
ScanPhases ==
    [ i \in 1..Len(ScanPhaseTable) |->
        [ name  |-> ScanPhaseTable[i].name,
          tools |-> getToolsByRole(ScanPhaseTable[i].roles) ] ]

\* Object.entries(phases).filter(([, tools]) => tools.length > 0)
ActivePhases == SelectSeq(ScanPhases, LAMBDA p : Len(p.tools) > 0)

RECURSIVE ScanSchedule(_, _, _, _)

\* Variant: the summary is registered with the initial delay, not after the
\* last phase.
ScanScheduleSummaryEarly(phs, i, globalDelay, run) ==
    IF i > Len(phs)
    THEN << Timer(ScanInitialDelay, "scanSummary", run, "", "") >>
    ELSE LET p == phs[i]
             n == Len(p.tools)
         IN  << Timer(globalDelay, "scanSection", run, p.name, "") >>
             \o [ j \in 1..n |->
                    Timer(globalDelay + ScanSectionGap + (j - 1) * ScanProbeGap,
                          "scanProbe", run, p.name, p.tools[j]) ]
             \o ScanSchedule(phs, i + 1,
                     globalDelay + ScanSectionGap + n * ScanProbeGap + ScanPhaseGap,
                     run)

\* The phase scheduler: the timers of one scan in registration order, each
\* with the value globalDelay has when it is registered.
ScanSchedule(phs, i, globalDelay, run) ==
    IF i > Len(phs)
    THEN << Timer(globalDelay + ScanSummaryGap, "scanSummary", run, "", "") >>
    ELSE LET p == phs[i]
             n == Len(p.tools)
         IN  << Timer(globalDelay, "scanSection", run, p.name, "") >>
             \o [ j \in 1..n |->
                    Timer(globalDelay + ScanSectionGap + (j - 1) * ScanProbeGap,
                          "scanProbe", run, p.name, p.tools[j]) ]
             \o ScanSchedule(phs, i + 1,
                     globalDelay + ScanSectionGap + n * ScanProbeGap + ScanPhaseGap,
                     run)

\* const results = { startedAt, findings: [], critical: 0, ... }
FreshResults ==
    [ findings |-> << >>, critical |-> 0, high |-> 0, medium |-> 0, low |-> 0,
      toolsRun |-> 0, completedAt |-> FALSE ]

\* The (level, flagged) pairs the simulation of one tool can end with.
Outcome(level, flagged) == [ level |-> level, flagged |-> flagged ]

ProbeOutcomes(key) ==
    CASE key = "wireshark"  -> { Outcome("warning", TRUE), Outcome("success", FALSE) }
      [] key = "suricata"   -> { Outcome("error", TRUE), Outcome("warning", TRUE),
                                 Outcome("success", FALSE) }
      [] key = "zeek"       -> { Outcome("critical", TRUE), Outcome("warning", TRUE),
                                 Outcome("success", FALSE) }
      [] key = "nessus"     -> { Outcome("critical", TRUE), Outcome("error", TRUE),
                                 Outcome("warning", TRUE), Outcome("success", FALSE) }
      [] key = "openvas"    -> { Outcome("critical", TRUE), Outcome("error", TRUE),
                                 Outcome("warning", FALSE), Outcome("success", FALSE) }
      [] key = "gvm"        -> { Outcome("error", TRUE), Outcome("warning", TRUE),
                                 Outcome("success", FALSE) }
      [] key = "clamav"     -> { Outcome("critical", TRUE), Outcome("success", FALSE) }
      [] key = "rkhunter"   -> { Outcome("error", TRUE), Outcome("warning", TRUE),
                                 Outcome("success", FALSE) }
      [] key = "chkrootkit" -> { Outcome("critical", TRUE), Outcome("success", FALSE) }
      [] key = "malwarebytes" -> { Outcome("critical", TRUE), Outcome("success", FALSE) }
      [] key = "windows-defender" -> { Outcome("warning", TRUE), Outcome("success", FALSE) }
      [] key = "kaspersky"  -> { Outcome("error", TRUE), Outcome("success", FALSE) }
      [] key = "aide"       -> { Outcome("critical", TRUE), Outcome("warning", TRUE),
                                 Outcome("success", FALSE) }
      [] key = "tripwire"   -> { Outcome("critical", TRUE), Outcome("warning", TRUE),
                                 Outcome("success", FALSE) }
      [] key = "volatility" -> { Outcome("critical", TRUE), Outcome("warning", TRUE),
                                 Outcome("success", FALSE) }
      [] key = "lynis"      -> { Outcome("error", TRUE), Outcome("warning", TRUE),
                                 Outcome("success", FALSE) }
      [] key = "cis-cat"    -> { Outcome("error", TRUE), Outcome("warning", TRUE),
                                 Outcome("success", FALSE) }
      [] key = "osquery"    -> { Outcome("critical", TRUE), Outcome("warning", TRUE),
                                 Outcome("info", FALSE) }
      [] key = "auditd"     -> { Outcome("critical", TRUE), Outcome("warning", TRUE),
                                 Outcome("success", FALSE) }
      [] key = "tiger"      -> { Outcome("error", TRUE), Outcome("warning", TRUE),
                                 Outcome("success", FALSE) }
      [] key = "splunk"     -> { Outcome("warning", TRUE), Outcome("info", FALSE) }
      [] key = "elastic-stack" -> { Outcome("warning", TRUE), Outcome("info", FALSE) }
      [] OTHER              -> { Outcome("success", FALSE) }

\* return flagged ? { phase, tool: name, key: tool.key, level, message: line } : null
runToolScan(key, phase, o) ==
    IF o.flagged
    THEN << [ phase |-> phase, tool |-> ToolName(key), key |-> key, level |-> o.level ] >>
    ELSE NoFinding

\* finding.flagged: the finding object carries no such property.
FindingFlagged(finding) == "flagged" \in DOMAIN finding /\ finding.flagged

\* Variant: a critical finding is counted as critical and as high.
RecordProbeCriticalTwice(results, found) ==
    LET r1 == [ results EXCEPT !.toolsRun = @ + 1 ]
    IN  IF found = NoFinding THEN r1
        ELSE LET finding == found[1]
                 r2 == [ r1 EXCEPT !.findings = Append(@, finding) ]
             IN  IF finding.level = "critical"
                 THEN [ r2 EXCEPT !.critical = @ + 1, !.high = @ + 1 ]
                 ELSE IF finding.level = "error" THEN [ r2 EXCEPT !.high = @ + 1 ]
                 ELSE IF finding.level = "warning" THEN [ r2 EXCEPT !.medium = @ + 1 ]
                 ELSE r2

\* Variant: an error-level finding is counted as medium.
RecordProbeErrorAsMedium(results, found) ==
    LET r1 == [ results EXCEPT !.toolsRun = @ + 1 ]
    IN  IF found = NoFinding THEN r1
        ELSE LET finding == found[1]
                 r2 == [ r1 EXCEPT !.findings = Append(@, finding) ]
             IN  IF finding.level = "critical" THEN [ r2 EXCEPT !.critical = @ + 1 ]
                 ELSE IF finding.level \in { "error", "warning" }
                      THEN [ r2 EXCEPT !.medium = @ + 1 ]
                 ELSE r2

\* The body of the probe callback after _runToolScan returned (found is
\* NoFinding, or holds the one finding returned).
RecordProbe(results, found) ==
    LET r1 == [ results EXCEPT !.toolsRun = @ + 1 ]
    IN  IF found = NoFinding THEN r1
        ELSE LET finding == found[1]
                 r2 == [ r1 EXCEPT !.findings = Append(@, finding) ]
             IN  IF finding.level = "critical" THEN [ r2 EXCEPT !.critical = @ + 1 ]
                 ELSE IF finding.level = "error" THEN [ r2 EXCEPT !.high = @ + 1 ]
                 ELSE IF finding.level = "warning" THEN [ r2 EXCEPT !.medium = @ + 1 ]
                 ELSE IF finding.level = "info" /\ FindingFlagged(finding)
                      THEN [ r2 EXCEPT !.low = @ + 1 ]
                 ELSE r2

ThreatLevel(results) ==
    IF results.critical > 0 THEN "CRITICAL"
    ELSE IF results.high > 0 THEN "HIGH"
    ELSE IF results.medium > 0 THEN "MEDIUM"
    ELSE "CLEAN"

SummaryLevel(results) ==
    IF results.critical > 0 THEN "critical"
    ELSE IF results.high > 0 THEN "error"
    ELSE IF results.medium > 0 THEN "warning"
    ELSE "success"

\* An entry of the Security Monitor; run names the run that logged it and
\* count the number a summary line reports.
Entry(type, run, text, tool, level, count) ==
    [ type |-> type, run |-> run, text |-> text, tool |-> tool, level |-> level,
      count |-> count ]

Activity(message, level) == [ message |-> message, level |-> level ]


\* ------------------------------------------------------- randomness source
\* Severity rank of a level, for the stub that reports the worst outcome.
Rank(level) ==
    CASE level = "critical" -> 4
      [] level = "error"    -> 3
      [] level = "warning"  -> 2
      [] level = "info"     -> 1
      [] OTHER              -> 0

Stubs == { "quiet", "worst" }

\* The outcomes ri() and Math.random() let a probe of one tool end with:
\* any of them ("random", at most MaxFindings flagged ones per scan), or
\* the one a deterministic stub fixes.
ProbeChoices(key, results) ==
    LET all == ProbeOutcomes(key)
    IN  IF probe = "random"
        THEN { o \in all : o.flagged => Len(results.findings) < MaxFindings }
        ELSE IF probe = "worst"
        THEN { o \in all : \A x \in all : Rank(x.level) <= Rank(o.level) }
        ELSE { o \in all : ~o.flagged /\ \A x \in all : ~x.flagged => Rank(x.level) <= Rank(o.level) }

\* ------------------------------------------------------------ object heap
\* A scan object nothing refers to any more, and a defend closure whose
\* summary has run: the garbage collector's view, kept so that dead objects
\* do not tell states apart.
CollectedScan == [ results |-> FreshResults, phases |-> << >> ]

ScanKinds == { "scanSection", "scanProbe", "scanSummary" }
DefendKinds == { "defSection", "defAction", "defSummary" }

ScanReferenced(id, store, tms, defs) ==
    \/ store = id
    \/ \E i \in 1..Len(tms) : tms[i].kind \in ScanKinds /\ tms[i].run = id
    \/ \E i \in 1..Len(defs) : defs[i].live /\ defs[i].scanResults = id

Sweep(scs, store, tms, defs) ==
    [ id \in 1..Len(scs) |->
        IF ScanReferenced(id, store, tms, defs) THEN scs[id] ELSE CollectedScan ]

ScanRunning == \E i \in 1..Len(timers) : timers[i].kind \in ScanKinds
DefendRunning == \E i \in 1..Len(timers) : timers[i].kind \in DefendKinds

\* ------------------------------------------------------------ scan actions
\* performComprehensiveScan(): both abort checks, the fresh results object,
\* the clearing of window.KjerLastScanResults, the header and the scheduling.
performComprehensiveScan ==
    IF getInstalledTools = { }
    THEN /\ activity' = Activity("Scan aborted - no security tools installed", "warning")
         /\ UNCHANGED << toolVars, gateVars, engineVars, calls, probe, cliVars >>
    ELSE IF ActivePhases = << >>
    THEN /\ activity' = Activity("Scan aborted - no scanner-role tools found", "warning")
         /\ UNCHANGED << toolVars, gateVars, engineVars, calls, probe, cliVars >>
    ELSE /\ Len(scans) < MaxScans
         /\ LET run == Len(scans) + 1
            IN  /\ KjerLastScanResults' = NULL
                /\ monitor' = << Entry("section", run, "KJER SECURITY SCAN", "", "info", 0) >>
                /\ timers' = setTimeouts(timers,
                                 ScanSchedule(ActivePhases, 1, ScanInitialDelay, run))
                /\ scans' = Sweep(Append(scans, [ results |-> FreshResults,
                                                  phases  |-> ActivePhases ]),
                                  NULL, timers', defends)
         /\ UNCHANGED << toolVars, gateVars, defends, calls, activity, probe, cliVars >>

\* setTimeout(() => logSection(phaseName), globalDelay)
ScanSectionFires(t) ==
    /\ monitor' = Append(monitor, Entry("section", t.run, t.phase, "", "info", 0))
    /\ UNCHANGED << toolVars, gateVars, KjerLastScanResults, scans, defends, calls,
                    activity, probe, cliVars >>

\* Variant: the probe runs only if its tool is still installed.
ScanProbeFiresIfInstalled(t) ==
    IF ToolName(t.tool) \in getInstalledTools
    THEN \E o \in ProbeChoices(t.tool, scans[t.run].results) :
            /\ LET found == runToolScan(t.tool, t.phase, o)
               IN  scans' = [ scans EXCEPT ![t.run].results = RecordProbe(@, found) ]
            /\ monitor' = Append(monitor,
                              Entry("result", t.run, t.phase, ToolName(t.tool), o.level, 0))
            /\ UNCHANGED << toolVars, gateVars, KjerLastScanResults, defends, calls,
                            activity, probe, cliVars >>
    ELSE UNCHANGED << toolVars, gateVars, KjerLastScanResults, scans, defends, monitor,
                      calls, activity, probe, cliVars >>

\* Variant: every probe records into the results of the latest scan.
ScanProbeFiresShared(t) ==
    \E o \in ProbeChoices(t.tool, scans[Len(scans)].results) :
        /\ LET found == runToolScan(t.tool, t.phase, o)
           IN  scans' = [ scans EXCEPT ![Len(scans)].results = RecordProbe(@, found) ]
        /\ monitor' = Append(monitor,
                          Entry("result", t.run, t.phase, ToolName(t.tool), o.level, 0))
        /\ UNCHANGED << toolVars, gateVars, KjerLastScanResults, defends, calls,
                        activity, probe, cliVars >>

\* The probe callback of one tool.
ScanProbeFires(t) ==
    \E o \in ProbeChoices(t.tool, scans[t.run].results) :
        /\ LET found == runToolScan(t.tool, t.phase, o)
           IN  scans' = [ scans EXCEPT ![t.run].results = RecordProbe(@, found) ]
        /\ monitor' = Append(monitor,
                          Entry("result", t.run, t.phase, ToolName(t.tool), o.level, 0))
        /\ UNCHANGED << toolVars, gateVars, KjerLastScanResults, defends, calls,
                        activity, probe, cliVars >>

\* Variants: the store keeps its value; completedAt is not set.
PublishNowhere(results, run) ==
    [ store |-> KjerLastScanResults, results |-> [ results EXCEPT !.completedAt = TRUE ] ]

PublishUncompleted(results, run) == [ store |-> run, results |-> results ]

\* results.completedAt = new Date(); window.KjerLastScanResults = results
Publish(results, run) ==
    [ store |-> run, results |-> [ results EXCEPT !.completedAt = TRUE ] ]

\* The summary callback: completedAt is set and the results object published.
ScanSummaryFires(t) ==
    LET pub == Publish(scans[t.run].results, t.run)
        results == pub.results
    IN  /\ KjerLastScanResults' = pub.store
        /\ monitor' = Append(monitor,
               Entry("summary", t.run, ThreatLevel(results), "", SummaryLevel(results),
                     Len(results.findings)))
        /\ activity' = Activity(IF Len(results.findings) > 0
                                  THEN "Scan complete - threats detected"
                                  ELSE "Scan complete - no threats detected",
                                SummaryLevel(results))
        /\ scans' = Sweep([ scans EXCEPT ![t.run].results = results ],
                          KjerLastScanResults', timers', defends)
        /\ UNCHANGED << toolVars, gateVars, defends, calls, probe, cliVars >>

\* ----------------------------------------------------------- defend engine
DefendInitialDelay == 400
DefendSectionGap == 300
DefendActionGap == 500
DefendActionGapShort == 450
DefendPhaseGap == 200
DefendSummaryGap == 400

Some(findings, keys, levels) ==
    \E i \in 1..Len(findings) : findings[i].key \in keys /\ findings[i].level \in levels

\* The threat context: hasNetworkThreat ... hasVulns.
ThreatContext(findings) ==
    [ hasNetworkThreat |->
          Some(findings, { "wireshark", "suricata", "zeek" },
               { "critical", "error", "warning" }),
      hasMalware |->
          Some(findings, { "clamav", "rkhunter", "chkrootkit", "malwarebytes",
                           "windows-defender", "kaspersky" },
               { "critical", "error" }),
      hasIntegrityViolation |->
          Some(findings, { "aide", "tripwire" }, { "critical", "warning" }),
      hasComplianceGap |->
          Some(findings, { "lynis", "cis-cat", "osquery", "auditd", "tiger" },
               { "critical", "error", "warning" }),
      hasMemoryThreat |->
          Some(findings, { "volatility" }, { "critical", "warning" }),
      hasVulns |->
          Some(findings, { "nessus", "openvas", "gvm" },
               { "critical", "error", "warning" }) ]

\* Variant: nothing is filtered out.
FilterNothing(tools, keys) == tools

\* Variant: the matched tools in the order of the key list of the filter.
FilterInListOrder(tools, keys) ==
    SelectSeq(<< "ufw", "fail2ban", "suricata", "apparmor", "selinux", "lynis", "auditd" >>,
              LAMBDA k : k \in keys /\ k \in Range(tools))

\* getToolsByRole(...).filter(t => [...].includes(t.key))

Filter(tools, keys) == SelectSeq(tools, LAMBDA k : k \in keys)

\* Variant: memory threats do not trigger the phase.
MalwareTriggerMalwareOnly(ctx, broadMode) == broadMode \/ ctx.hasMalware

\* The trigger of the Malware Containment phase.
MalwareTrigger(ctx, broadMode) == broadMode \/ ctx.hasMalware \/ ctx.hasMemoryThreat

\* Variant: the SIEM phase is engaged whatever the findings.
SiemTriggerAlways(findings, broadMode) == TRUE

\* The trigger of the SIEM Alert Rules phase: broadMode || findings.length > 0
SiemTrigger(findings, broadMode) == broadMode \/ Len(findings) > 0

\* The six phases in the order of the source: the tools matched, whether
\* the phase is engaged, and the delay between two of its tool actions.
DefensePhases(findings, broadMode) ==
    LET ctx == ThreatContext(findings)
        networkDefenders == Filter(getToolsByRole({ "firewall", "ips" }),
                                   { "ufw", "fail2ban", "suricata" })
        avTools == getToolsByRole({ "av_remediate" })
        macTools == Filter(getToolsByRole({ "firewall" }), { "apparmor", "selinux" })
        integrityTools == getToolsByRole({ "integrity_scan" })
        complianceDefenders == Filter(getToolsByRole({ "compliance_scan" }),
                                      { "lynis", "auditd" })
        siemTools == getToolsByRole({ "siem" })
    IN  << [ name |-> "PHASE 1 - NETWORK & PERIMETER", tools |-> networkDefenders,
             gap |-> DefendActionGap,
             engaged |-> Len(networkDefenders) > 0
                         /\ (broadMode \/ ctx.hasNetworkThreat \/ ctx.hasVulns) ],
           [ name |-> "PHASE 2 - MALWARE CONTAINMENT", tools |-> avTools,
             gap |-> DefendActionGap,
             engaged |-> Len(avTools) > 0 /\ MalwareTrigger(ctx, broadMode) ],
           [ name |-> "PHASE 3 - ACCESS CONTROL ENFORCEMENT", tools |-> macTools,
             gap |-> DefendActionGap,
             engaged |-> Len(macTools) > 0
                         /\ (broadMode \/ ctx.hasComplianceGap \/ ctx.hasMalware) ],
           [ name |-> "PHASE 4 - FILE INTEGRITY", tools |-> integrityTools,
             gap |-> DefendActionGapShort,
             engaged |-> Len(integrityTools) > 0
                         /\ (broadMode \/ ctx.hasIntegrityViolation) ],
           [ name |-> "PHASE 5 - AUDIT HARDENING", tools |-> complianceDefenders,
             gap |-> DefendActionGap,
             engaged |-> Len(complianceDefenders) > 0
                         /\ (broadMode \/ ctx.hasComplianceGap) ],
           [ name |-> "PHASE 6 - SIEM ALERT RULES", tools |-> siemTools,
             gap |-> DefendActionGapShort,
             engaged |-> Len(siemTools) > 0 /\ SiemTrigger(findings, broadMode) ] >>

\* The timers of one defend run in registration order.
RECURSIVE DefendSchedule(_, _, _, _)
DefendSchedule(phs, i, delay, run) ==
    IF i > Len(phs)
    THEN << Timer(delay + DefendSummaryGap, "defSummary", run, "", "") >>
    ELSE LET p == phs[i]
             n == Len(p.tools)
         IN  IF ~p.engaged
             THEN DefendSchedule(phs, i + 1, delay, run)
             ELSE << Timer(delay, "defSection", run, p.name, "") >>
                  \o [ j \in 1..n |->
                         Timer(delay + DefendSectionGap + (j - 1) * p.gap,
                               "defAction", run, p.name, p.tools[j]) ]
                  \o DefendSchedule(phs, i + 1,
                         delay + DefendSectionGap + n * p.gap + DefendPhaseGap, run)

\* const hasScanData = scanResults && scanResults.completedAt
HasScanData(scanResults) ==
    scanResults # NULL /\ scans[scanResults].results.completedAt

\* Variant: never broad.
BroadModeNever(hasScanData) == FALSE

\* const broadMode = !hasScanData
BroadMode(hasScanData) == ~hasScanData

\* The level the action of one (modelled) tool is logged with.
ActionLevel(key, ctx) ==
    CASE key = "ufw"              -> "success"
      [] key = "suricata"         -> IF ctx.hasNetworkThreat THEN "warning" ELSE "info"
      [] key = "clamav"           -> IF ctx.hasMalware THEN "warning" ELSE "success"
      [] key = "windows-defender" -> "success"
      [] OTHER                    -> "info"

\* Variant: critical findings do not change the posture.
PostureIgnoringCritical(actionsTotal, findings, hasScanData, critical) ==
    IF actionsTotal = 0 THEN "NO DEFENSIVE TOOLS INSTALLED"
    ELSE IF Len(findings) = 0 THEN "HARDENED (preventive)"
    ELSE "HARDENED"

\* The posture the defense summary reports.
Posture(actionsTotal, findings, hasScanData, critical) ==
    IF actionsTotal = 0 THEN "NO DEFENSIVE TOOLS INSTALLED"
    ELSE IF Len(findings) = 0 THEN "HARDENED (preventive)"
    ELSE IF hasScanData /\ critical > 0 THEN "INCIDENT RESPONSE ACTIVE"
    ELSE "HARDENED"

CollectedDefend ==
    [ live |-> FALSE, scanResults |-> NULL, hasScanData |-> FALSE,
      context |-> ThreatContext(<< >>), broadMode |-> FALSE, phases |-> << >>,
      actionsTotal |-> 0, toolsEngaged |-> { } ]

\* const findings = hasScanData ? scanResults.findings : []
DefendFindings(d) ==
    IF d.hasScanData THEN scans[d.scanResults].results.findings ELSE << >>

\* activateSmartDefense(): the abort check, the read of the Result Store, the
\* header, the threat context and the scheduling of every engaged phase.
activateSmartDefense ==
    IF getInstalledTools = { }
    THEN /\ activity' = Activity("Defend aborted - no tools installed", "warning")
         /\ UNCHANGED << toolVars, gateVars, engineVars, calls, probe, cliVars >>
    ELSE /\ Len(defends) < MaxDefends
         /\ LET run == Len(defends) + 1
                scanResults == KjerLastScanResults
                hasScanData == HasScanData(scanResults)
                findings == IF hasScanData THEN scans[scanResults].results.findings
                            ELSE << >>
                broadMode == BroadMode(hasScanData)
                phases == DefensePhases(findings, broadMode)
            IN  /\ defends' = Append(defends,
                       [ live |-> TRUE, scanResults |-> scanResults,
                         hasScanData |-> hasScanData,
                         context |-> ThreatContext(findings), broadMode |-> broadMode,
                         phases |-> SelectSeq(phases, LAMBDA p : p.engaged),
                         actionsTotal |-> 0, toolsEngaged |-> { } ])
                /\ monitor' = << Entry("section", run, "KJER SMART DEFENSE", "",
                                       IF hasScanData THEN "info" ELSE "warning", 0) >>
                /\ activity' = IF hasScanData THEN activity
                               ELSE Activity("No recent scan data - running broad defensive hardening",
                                             "warning")
                /\ timers' = setTimeouts(timers,
                                 DefendSchedule(phases, 1, DefendInitialDelay, run))
         /\ UNCHANGED << toolVars, gateVars, KjerLastScanResults, scans, calls, probe, cliVars >>

\* setTimeout(() => logSection('PHASE n - ...'), delay)
DefendSectionFires(t) ==
    /\ monitor' = Append(monitor, Entry("section", t.run, t.phase, "", "info", 0))
    /\ UNCHANGED << toolVars, gateVars, KjerLastScanResults, scans, defends, calls,
                    activity, probe, cliVars >>

\* The action callback of one tool: toolsEngaged.add, the log line, actionsTotal++.
DefendActionFires(t) ==
    /\ defends' = [ defends EXCEPT
                      ![t.run].toolsEngaged = @ \cup { ToolName(t.tool) },
                      ![t.run].actionsTotal = @ + 1 ]
    /\ monitor' = Append(monitor,
                      Entry("result", t.run, t.phase, ToolName(t.tool),
                            ActionLevel(t.tool, defends[t.run].context), 0))
    /\ UNCHANGED << toolVars, gateVars, KjerLastScanResults, scans, calls,
                    activity, probe, cliVars >>

\* The defense summary callback.
DefendSummaryFires(t) ==
    LET d == defends[t.run]
        findings == DefendFindings(d)
        critical == IF d.hasScanData THEN scans[d.scanResults].results.critical ELSE 0
        posture == Posture(d.actionsTotal, findings, d.hasScanData, critical)
    IN  /\ monitor' = Append(monitor,
               Entry("defSummary", t.run, posture, "",
                     IF d.actionsTotal > 0 THEN "success" ELSE "warning",
                     d.actionsTotal))
        /\ activity' = Activity(IF d.actionsTotal > 0 THEN "Defense complete"
                                  ELSE "Defense complete - no defensive tools installed",
                                IF d.actionsTotal > 0 THEN "success" ELSE "warning")
        /\ defends' = [ defends EXCEPT ![t.run] = CollectedDefend ]
        /\ scans' = Sweep(scans, KjerLastScanResults, timers', defends')
        /\ UNCHANGED << toolVars, gateVars, KjerLastScanResults, calls, probe, cliVars >>

\* ------------------------------------------------------------- state gate
AutoInitDelay == 1500
ReloadDelay == 500
InitDoneDelay == 2000

\* What the user types into licenseKeyInput, after trim().toUpperCase().
LicenseInputs == { "KJER-PRO-7F3A-9C21-44DE1", "KJER-123" }

\* licenseKey.length
KeyLength(licenseKey) ==
    CASE licenseKey = "KJER-PRO-7F3A-9C21-44DE1" -> 24
      [] licenseKey = "KJER-123"                 -> 8
      [] OTHER                                   -> 0

\* keyLower.includes('ent') ? 'enterprise' : keyLower.includes('pro') ? ...
LicenseType(licenseKey, stored) ==
    CASE licenseKey = "KJER-PRO-7F3A-9C21-44DE1" -> "professional"
      [] OTHER -> IF stored # "" THEN stored ELSE "personal"

\* result.license_version || result.version || null ("" stands for null)
LicenseVersions == { "", "1.1.0" }

\* The tools whose card button the user clicks.
ToolInputs == { "ClamAV", "UFW" }

Call(fn, arg, flag) == [ fn |-> fn, arg |-> arg, flag |-> flag ]

\* The suspended calls once the n-th of them has resumed.
Resume(cs, n) == SubSeq(cs, 1, n - 1) \o SubSeq(cs, n + 1, Len(cs))

\* Variant: a state file alone counts as initialized.
ReadInstallStateFileOnly(stateFile, initFlag) ==
    IF stateFile # ""
    THEN [ success |-> TRUE, os |-> stateFile, initialized |-> TRUE ]
    ELSE [ success |-> initFlag, os |-> "", initialized |-> initFlag ]

\* The reply of ipcMain.handle('read-install-state').
ReadInstallState(stateFile, initFlag) ==
    IF stateFile # ""
    THEN [ success |-> TRUE, os |-> stateFile, initialized |-> initFlag ]
    ELSE [ success |-> initFlag, os |-> "", initialized |-> initFlag ]

\* location.reload() and the DOMContentLoaded handler with
\* loadInstallStateIntoApp(): the renderer starts afresh, then userOS, the
\* initialized flag, the version and the license are restored from disk.
PageLoad ==
    LET result == ReadInstallState(installState, diskInitialized)
        restored == result.success /\ result.initialized
        os1 == IF result.success /\ result.os # "" THEN result.os ELSE userOS
    IN  /\ kterInitialized' = IF result.success THEN result.initialized
                              ELSE kterInitialized
        /\ userOS' = IF os1 # "" THEN os1 ELSE "linux"
        /\ \E vf \in { "", "1.0.0" } :
               kterVersion' = IF vf # "" THEN vf ELSE kterVersion
        /\ IF kterLicenseKey = "" /\ licenseFile # ""
           THEN /\ kterLicenseKey' = licenseFile
                /\ kterLicenseType' = LicenseType(licenseFile, "")
                /\ kterActivated' = TRUE
                /\ activity' = Activity("License key restored from saved state", "info")
           ELSE /\ UNCHANGED << kterLicenseKey, kterLicenseType, kterActivated >>
                /\ activity' = IF restored
                               THEN Activity("Initialization state restored from disk", "info")
                               ELSE IF result.success /\ result.os # ""
                               THEN Activity("OS detected at install time", "success")
                               ELSE Activity("System booting up...", "info")
        /\ KjerLastScanResults' = NULL
        /\ scans' = [ i \in 1..Len(scans) |-> CollectedScan ]
        /\ defends' = [ i \in 1..Len(defends) |-> CollectedDefend ]
        /\ monitor' = << >>
        /\ calls' = << >>
        /\ activationStatus' = ""
        /\ UNCHANGED << toolVars, diskInitialized, installState, licenseFile, probe, cliVars >>

\* initializeKjer() up to its first await: kterInitialized is set and the
\* command that writes ~/.kjer/initialized is issued. The call records
\* whether both flags were set when it began.
initializeKjer ==
    /\ kterInitialized' = TRUE
    /\ userOS' = IF userOS = "" THEN "linux" ELSE userOS
    /\ calls' = Append(calls, Call("initializeKjer", "",
                                   kterInitialized /\ diskInitialized))
    /\ activity' = Activity("Activating security framework", "info")
    /\ UNCHANGED << toolVars, diskInitialized, installState, licenseVars,
                    activationStatus, KjerLastScanResults, scans, defends, monitor,
                    probe, cliVars >>

\* The last step of the tutorial: tutorialNext() calls initializeKjer().
tutorialNext ==
    /\ initializeKjer
    /\ UNCHANGED timers

\* setToolInstalled(toolName, isInstalled): the map getInstalledTools()
\* returns, with toolName added or deleted, is written to 'installedTools'.
setToolInstalled(toolName, isInstalled) ==
    IF isInstalled THEN getInstalledTools \cup { toolName }
    ELSE getInstalledTools \ { toolName }

\* The system analysis file is absent; what kjer-cli.py --analyze writes.
NoAnalysis == << >>
AnalysisChoices == { NoAnalysis, << "clamav", "UFW", "nmap" >> }

\* yamlKey.toLowerCase()
ToLowerCase(key) == IF key = "UFW" THEN "ufw" ELSE key

\* Variant: a detected key is registered whether the catalog holds it or not.
RegisterDetectedUnfiltered(yamlKey, installed) ==
    setToolInstalled(IF ToLowerCase(yamlKey) \in CatalogKeys
                     THEN ToolName(ToLowerCase(yamlKey)) ELSE yamlKey, TRUE)

\* const displayName = keyToName[yamlKey.toLowerCase()];
\* if (displayName) { setToolInstalled(displayName, true); ... }
RegisterDetected(yamlKey, installed) ==
    IF ToLowerCase(yamlKey) \in CatalogKeys
    THEN setToolInstalled(ToolName(ToLowerCase(yamlKey)), TRUE)
    ELSE installed

\* syncPreInstalledTools(): the loop over the detected tools; installed is
\* what 'installedTools' holds after the keys before the i-th.
RECURSIVE syncPreInstalledTools(_, _, _)
syncPreInstalledTools(detected, i, installed) ==
    IF i > Len(detected) THEN installed
    ELSE syncPreInstalledTools(detected, i + 1, RegisterDetected(detected[i], installed))

\* initializeKjer() resumes: the flag file was written or the command failed
\* (non-fatal); syncPreInstalledTools reads the system analysis, which
\* kjer-cli.py --analyze writes when it is absent; the rest completes, or a
\* step throws, before or after the sync, and the catch block removes
\* kterInitialized.
initializeKjerResumes ==
    \E n \in 1..Len(calls), written \in BOOLEAN, threw \in BOOLEAN,
       synced \in BOOLEAN, analysed \in AnalysisChoices :
        /\ calls[n].fn = "initializeKjer"
        /\ calls' = Resume(calls, n)
        /\ diskInitialized' = (diskInitialized \/ written)
        /\ ~threw => synced
        /\ IF synced
           THEN /\ systemAnalysis' = IF systemAnalysis = NoAnalysis THEN analysed
                                     ELSE systemAnalysis
                /\ installedToolsLS' =
                       syncPreInstalledTools(systemAnalysis', 1, installedToolsLS)
           ELSE /\ analysed = NoAnalysis
                /\ UNCHANGED << systemAnalysis, installedToolsLS >>
        /\ IF threw
           THEN /\ kterInitialized' = FALSE
                /\ activity' = Activity("Initialization failed", "error")
                /\ UNCHANGED timers
           ELSE /\ UNCHANGED kterInitialized
                /\ activity' = Activity("Environment confirmed", "success")
                /\ timers' = setTimeout(timers, Timer(InitDoneDelay, "initDone", 0, "", ""))
        /\ UNCHANGED << toolFlag, userOS, installState, licenseVars, activationStatus,
                        KjerLastScanResults, scans, defends, monitor, probe, cliVars >>

\* Variant: a new version is an upgrade whether initialized or not.
IsUpgradeAnyState(newVersion, currentVersion, isInitialized) ==
    newVersion # "" /\ newVersion # currentVersion

\* const isUpgrade = newVersion && newVersion !== currentVersion && isInitialized
IsUpgrade(newVersion, currentVersion, isInitialized) ==
    newVersion # "" /\ newVersion # currentVersion /\ isInitialized

\* activateKjer() up to the await of BackendAPI.activateLicense.
activateKjer ==
    \E licenseKey \in LicenseInputs :
        /\ IF KeyLength(licenseKey) # 24
           THEN /\ activationStatus' = "Invalid license key format"
                /\ UNCHANGED calls
           ELSE /\ activationStatus' = "Activating..."
                /\ calls' = Append(calls, Call("activateKjer", licenseKey, FALSE))
        /\ UNCHANGED << toolVars, kterInitialized, userOS, diskInitialized, installState,
                        licenseVars, engineVars, activity, probe, cliVars >>

\* What executeCommand('python3', args) gives callBackend: a rejected
\* promise, or a response whose stdout is empty, is not JSON, or is the
\* JSON text of a reply. response.code is never read.
Response(kind, reply) == [ kind |-> kind, reply |-> reply ]

\* A result object the callers of callBackend read: a field that is absent
\* reads as "undefined" (message) or "" (license_version).
Result(success, message, error, license_version) ==
    [ success |-> success, message |-> message, error |-> error,
      license_version |-> license_version ]

\* The messages the license backend rejects a key with.
AuthorityMessages == { "Invalid license key", "License bound to another machine" }

\* The replies of backend_api.py activate.
ActivateReplies ==
    { Result(TRUE, "License activated", "", v) : v \in LicenseVersions }
    \cup { Result(FALSE, m, "", "") : m \in AuthorityMessages }

BackendResponses(replies) ==
    { Response("rejected", Result(FALSE, "", "", "")),
      Response("empty", Result(FALSE, "", "", "")),
      Response("malformed", Result(FALSE, "", "", "")) }
    \cup { Response("json", r) : r \in replies }

\* BackendAPI.callBackend: JSON.parse(response.stdout) when stdout is not
\* empty; { success: false, error } when it is empty, when JSON.parse throws
\* and when executeCommand rejects.
callBackend(response) ==
    CASE response.kind = "json"      -> response.reply
      [] response.kind = "empty"     -> Result(FALSE, "undefined", "No response from backend", "")
      [] response.kind = "malformed" -> Result(FALSE, "undefined", "error.message", "")
      [] OTHER                       -> Result(FALSE, "undefined", "error.message", "")

\* Variant: a failure is reported with a text of the application's own.
ActivationFailureGeneric(result) == "Activation failed"

\* statusDiv.innerHTML = `... ${result.message}`
ActivationFailureStatus(result) == result.message

\* activateKjer() resumes with the reply of the license backend.
activateKjerResumes ==
    \E n \in 1..Len(calls), response \in BackendResponses(ActivateReplies),
       saved \in BOOLEAN :
      LET result == callBackend(response)
          success == result.success
          newVersion == result.license_version
      IN
        /\ calls[n].fn = "activateKjer"
        /\ calls' = Resume(calls, n)
        /\ IF success
           THEN LET c == calls[n]
                    currentVersion == IF kterVersion # "" THEN kterVersion ELSE "1.0.0"
                    isUpgrade == IsUpgrade(newVersion, currentVersion, kterInitialized)
                IN  /\ kterLicenseKey' = c.arg
                    /\ kterLicenseType' = LicenseType(c.arg, kterLicenseType)
                    /\ kterActivated' = TRUE
                    /\ licenseFile' = IF saved THEN c.arg ELSE licenseFile
                    /\ kterVersion' = IF newVersion # "" THEN newVersion ELSE kterVersion
                    /\ timers' = IF isUpgrade THEN timers
                                 ELSE setTimeout(timers,
                                          Timer(AutoInitDelay, "autoInit", 0, "", ""))
                    /\ activationStatus' = IF isUpgrade THEN "Reinitialize Now"
                                           ELSE "Activation successful!"
           ELSE /\ ~saved
                /\ activationStatus' = ActivationFailureStatus(result)
                /\ UNCHANGED << licenseVars, timers >>
        /\ UNCHANGED << toolVars, kterInitialized, userOS, diskInitialized, installState,
                        KjerLastScanResults, scans, defends, monitor, activity, probe, cliVars >>

\* resetApplicationState(): the settings and the initialized flag go, the
\* license stays; bash -c 'rm -f ~/.kjer/initialized' removes the flag file
\* or fails (no bash); the page reloads 500 ms later.
resetApplicationState ==
    /\ kterInitialized' = FALSE
    /\ userOS' = ""
    /\ \E removed \in BOOLEAN : diskInitialized' = (diskInitialized /\ ~removed)
    /\ activity' = Activity("Application state reset. License remains active on this system.",
                            "warning")
    /\ timers' = setTimeout(timers, Timer(ReloadDelay, "reload", 0, "", ""))
    /\ UNCHANGED << toolVars, installState, licenseVars, activationStatus,
                    KjerLastScanResults, scans, defends, monitor, calls, probe, cliVars >>

\* clearCache(): localStorage.clear()
clearCache ==
    /\ toolFlag' = FALSE
    /\ installedToolsLS' = { }
    /\ kterInitialized' = FALSE
    /\ kterActivated' = FALSE
    /\ kterLicenseKey' = ""
    /\ kterLicenseType' = ""
    /\ kterVersion' = ""
    /\ userOS' = ""
    /\ activity' = Activity("Cache cleared by user", "info")
    /\ UNCHANGED << systemAnalysis, diskInitialized, installState, licenseFile,
                    activationStatus, engineVars, calls, probe, cliVars >>

\* installTool(toolName) up to the await of the backend call.
installTool ==
    \E toolName \in ToolInputs :
        /\ calls' = Append(calls, Call("installTool", toolName, toolName \in getInstalledTools))
        /\ activity' = Activity(IF toolName \in getInstalledTools
                                  THEN "Uninstallation started" ELSE "Installation started",
                                "info")
        /\ UNCHANGED << toolVars, gateVars, engineVars, probe, cliVars >>

\* installTool(toolName) resumes with the reply of the backend.
installToolResumes ==
    \E n \in 1..Len(calls), success \in BOOLEAN :
        /\ calls[n].fn = "installTool"
        /\ calls' = Resume(calls, n)
        /\ IF success
           THEN /\ installedToolsLS' = setToolInstalled(calls[n].arg, ~calls[n].flag)
                /\ activity' = Activity(IF calls[n].flag THEN "uninstalled"
                                          ELSE "installation completed", "success")
           ELSE /\ UNCHANGED installedToolsLS
                /\ activity' = Activity(IF calls[n].flag THEN "uninstallation failed"
                                          ELSE "installation failed", "error")
        /\ UNCHANGED << toolFlag, systemAnalysis, gateVars, engineVars, probe, cliVars >>

\* setTimeout(() => { closeActivationModal(); initializeKjer(); }, 1500)
AutoInitFires(t) == initializeKjer

\* setTimeout(() => { location.reload(); }, 500)
ReloadFires(t) == PageLoad

\* setTimeout(() => logActivity('Initialization complete ...'), 2000)
InitDoneFires(t) ==
    /\ activity' = Activity("Initialization complete - Kjer is fully operational", "success")
    /\ UNCHANGED << toolVars, gateVars, KjerLastScanResults, scans, defends, monitor,
                    calls, probe, cliVars >>

\* ------------------------------------------------------------- event loop
\* The timer at the head of the queue is due: its callback runs. A reload
\* discards every pending timer of the page.
FireTimer ==
    /\ timers # << >>
    /\ Head(timers).delay = 0
    /\ timers' = IF Head(timers).kind = "reload" THEN << >> ELSE Tail(timers)
    /\ LET t == Head(timers)
       IN  CASE t.kind = "scanSection" -> ScanSectionFires(t)
             [] t.kind = "scanProbe"   -> ScanProbeFires(t)
             [] t.kind = "scanSummary" -> ScanSummaryFires(t)
             [] t.kind = "defSection"  -> DefendSectionFires(t)
             [] t.kind = "defAction"   -> DefendActionFires(t)
             [] t.kind = "defSummary"  -> DefendSummaryFires(t)
             [] t.kind = "autoInit"    -> AutoInitFires(t)
             [] t.kind = "reload"      -> ReloadFires(t)
             [] t.kind = "initDone"    -> InitDoneFires(t)

\* 50 ms pass while no pending timer is due.
Tick ==
    /\ timers # << >>
    /\ Head(timers).delay > 0
    /\ timers' = [ i \in 1..Len(timers) |-> [ timers[i] EXCEPT !.delay = @ - 50 ] ]
    /\ UNCHANGED << toolVars, gateVars, KjerLastScanResults, scans, defends, monitor,
                    calls, activity, probe, cliVars >>

\* ------------------------------------------------------------------ states
InitStorage ==
    /\ installedToolsLS = { }
    /\ systemAnalysis = NoAnalysis
    /\ kterActivated = FALSE
    /\ kterLicenseKey = ""
    /\ kterLicenseType = ""
    /\ kterVersion = ""
    /\ userOS = "linux"
    /\ licenseFile = ""
    /\ activationStatus = ""

\* No CLI process runs and the backend holds no activation.
NoExit == 0 - 1
InitCLI ==
    /\ backendActivated = FALSE
    /\ backendOS = ""
    /\ cliPc = "off"
    /\ cliCmd = ""
    /\ cliOut = ""
    /\ cliExit = NoExit
    /\ cliResult = [ raw |-> "", success |-> FALSE ]

InitRenderer ==
    /\ KjerLastScanResults = NULL
    /\ scans = << >>
    /\ defends = << >>
    /\ timers = << >>
    /\ calls = << >>
    /\ monitor = << >>
    /\ activity = Activity("System booting up...", "info")

\* The scan and defend engines, on a localStorage that holds the key
\* 'tool_undefined_installed' or does not. With random probe outcomes the
\* user starts a run when no other run is in progress; with a deterministic
\* probe stub the user starts up to MaxOverlapRuns runs at any instants, so
\* that they overlap.
Init ==
    /\ InitStorage
    /\ InitRenderer
    /\ InitCLI
    /\ toolFlag \in BOOLEAN
    /\ installState = "linux"
    /\ kterInitialized \in BOOLEAN
    /\ diskInitialized = kterInitialized
    /\ probe \in { "random" } \cup Stubs

Idle ==
    IF probe = "random" THEN ~ScanRunning /\ ~DefendRunning
    ELSE Len(scans) + Len(defends) < MaxOverlapRuns

UserScan == Idle /\ performComprehensiveScan
UserDefend == Idle /\ activateSmartDefense

Next ==
    \/ UserScan
    \/ UserDefend
    \/ FireTimer
    \/ Tick

Spec == Init /\ [][Next]_vars

\* The event loop runs a callback that is due and lets time pass while none
\* is: a registered setTimeout callback is never starved by the renderer.
SpecFair == Init /\ [][Next]_vars /\ WF_vars(FireTimer) /\ WF_vars(Tick)

\* The state gate: a fresh installation, the user's setup, activation,
\* reset and tool-card operations, and the replies of the backend. No code
\* of the application writes 'tool_undefined_installed': a fresh
\* installation does not hold it.
InitGate ==
    /\ InitStorage
    /\ InitRenderer
    /\ InitCLI
    /\ toolFlag = FALSE
    /\ installState \in { "", "linux" }
    /\ kterInitialized = FALSE
    /\ diskInitialized = FALSE
    /\ probe = "random"

\* The user starts an operation while fewer than MaxPending calls and
\* timers are pending.
Settled == Len(calls) + Len(timers) < MaxPending

UserTutorialNext == Settled /\ tutorialNext
UserActivate == Settled /\ activateKjer
UserReset == Settled /\ resetApplicationState
UserInstallTool == Settled /\ installTool
Relaunch == PageLoad /\ timers' = << >>

NextGate ==
    \/ UserTutorialNext
    \/ UserActivate
    \/ UserReset
    \/ UserInstallTool
    \/ clearCache
    \/ Relaunch
    \/ initializeKjerResumes
    \/ activateKjerResumes
    \/ installToolResumes
    \/ FireTimer
    \/ Tick

SpecGate == InitGate /\ [][NextGate]_vars

\* The engines while the user works in the tool box and the settings: a
\* tool card is clicked, the backend replies, the cache is cleared, while a
\* run is in progress. The installation is initialized and the probes are
\* deterministic stubs; the user starts a scan while no scan runs and a
\* defend run while no defend run does. What happens between two callbacks
\* happens at the instant the later one is due.
InitLive ==
    /\ InitStorage
    /\ InitRenderer
    /\ InitCLI
    /\ toolFlag \in BOOLEAN
    /\ installState = "linux"
    /\ kterInitialized = TRUE
    /\ diskInitialized = TRUE
    /\ probe \in Stubs

BetweenCallbacks == IF timers = << >> THEN TRUE ELSE Head(timers).delay = 0
RunInProgress == ScanRunning \/ DefendRunning

LiveScan == BetweenCallbacks /\ ~ScanRunning /\ performComprehensiveScan
LiveDefend == BetweenCallbacks /\ ~DefendRunning /\ activateSmartDefense
LiveInstallTool ==
    BetweenCallbacks /\ RunInProgress /\ Len(calls) < MaxPending /\ installTool
LiveInstallToolResumes == BetweenCallbacks /\ installToolResumes
LiveClearCache == BetweenCallbacks /\ RunInProgress /\ clearCache

NextLive ==
    \/ LiveScan
    \/ LiveDefend
    \/ LiveInstallTool
    \/ LiveInstallToolResumes
    \/ LiveClearCache
    \/ FireTimer
    \/ Tick

SpecLive == InitLive /\ [][NextLive]_vars

\* ------------------------------------------------------------ Windows CLI
\* Everything of the GUI but the flag file ~/.kjer/initialized, which the
\* CLI removes.
guiVars ==
    << toolVars, kterInitialized, userOS, installState, licenseVars, activationStatus,
       engineVars, calls, activity, probe >>

\* An object a backend action answers with, as the CLI reads it: a field
\* that is absent reads as FALSE or "".
Reply(success, activated, detected_os, system_os, message, error, license_version) ==
    [ success |-> success, activated |-> activated, detected_os |-> detected_os,
      system_os |-> system_os, message |-> message, error |-> error,
      license_version |-> license_version ]

\* What `& python $args 2>&1` yields: the call throws, or the output is
\* empty, is text that is not JSON (a traceback), or is the JSON of a reply.
Output(kind, reply) == [ kind |-> kind, reply |-> reply ]

NoReply == Reply(FALSE, FALSE, "", "", "", "", "")

Outputs(replies) ==
    { Output("throws", NoReply), Output("empty", NoReply), Output("text", NoReply) }
    \cup { Output("json", r) : r \in replies }

\* Invoke-BackendAPI: ConvertFrom-Json of the output; when that throws,
\* { success = $true; message = <the output> }; { success = $false; error }
\* when there is no output and when the call throws.
InvokeBackendAPI(output) ==
    CASE output.kind = "json"  -> output.reply
      [] output.kind = "text"  -> Reply(TRUE, FALSE, "", "", "Traceback", "", "")
      [] output.kind = "empty" -> Reply(FALSE, FALSE, "", "", "", "No response from backend", "")
      [] OTHER                 -> Reply(FALSE, FALSE, "", "", "", "Exception.Message", "")

\* What the last call of Invoke-BackendAPI returned, and from what output.
Returned(output) ==
    [ raw |-> output.kind, success |-> InvokeBackendAPI(output).success ]

\* The replies of the backend actions.
CheckActivationReplies == { Reply(TRUE, backendActivated, "", "", "", "", "") }
SystemOSChoices == { "", "Microsoft Windows 11" }
SystemStatusReplies ==
    { Reply(TRUE, FALSE, backendOS, o, "", "", "") :
        o \in IF backendOS = "" THEN SystemOSChoices ELSE { "" } }
CliActivateReplies ==
    { Reply(TRUE, TRUE, "", "", "License activated", "", v) : v \in LicenseVersions }
    \cup { Reply(FALSE, FALSE, "", "", m, "", "") : m \in AuthorityMessages }
UninitializeReplies ==
    { Reply(TRUE, FALSE, "", "", "", "", ""),
      Reply(FALSE, FALSE, "", "", "", "Not initialized", "") }
ReinitializeReplies ==
    { Reply(TRUE, FALSE, "", "", "", "", ""),
      Reply(FALSE, FALSE, "", "", "", "Reinitialization failed", "") }

\* What the user starts the CLI with.
CliCommands ==
    { "", "--help", "--status", "--list", "--upgrade", "--uninstall", "--uninitialize",
      "--frobnicate" }

\* exit n
Exit(code, message) ==
    /\ cliPc' = "off"
    /\ cliExit' = code
    /\ cliOut' = message

\* The function called from the menu or from the entry point switch returns.
Return(message) ==
    /\ cliOut' = message
    /\ IF cliCmd = ""
       THEN cliPc' = "menu" /\ cliExit' = NoExit
       ELSE cliPc' = "off" /\ cliExit' = 0

\* The entry point switch on $args[0].
CliStart ==
    \E cmd \in CliCommands :
        /\ cliPc = "off"
        /\ cliCmd' = cmd
        /\ CASE cmd \in { "", "--status", "--list", "--upgrade" }
                   -> cliPc' = "checkInit" /\ cliExit' = NoExit /\ cliOut' = ""
             [] cmd = "--uninstall"
                   -> cliPc' = "uninstall" /\ cliExit' = NoExit /\ cliOut' = ""
             [] cmd = "--uninitialize"
                   -> cliPc' = "uninit" /\ cliExit' = NoExit /\ cliOut' = ""
             [] cmd = "--help" -> Exit(0, "USAGE")
             [] OTHER          -> Exit(1, "Unknown command")
        /\ UNCHANGED << guiVars, diskInitialized, backendActivated, backendOS, cliResult >>

\* Test-Initialization and what Show-MainMenu and Test-RequireReady do
\* with it.
TestInitialization ==
    \E output \in Outputs(CheckActivationReplies) :
        LET status == InvokeBackendAPI(output)
        IN  /\ cliPc = "checkInit"
            /\ cliResult' = Returned(output)
            /\ IF ~status.activated
               THEN Exit(1, IF cliCmd = "" THEN "KJER NOT INITIALIZED"
                            ELSE "Kjer is not initialized.")
               ELSE cliPc' = "checkOS" /\ UNCHANGED << cliExit, cliOut >>
            /\ UNCHANGED << guiVars, diskInitialized, backendActivated, backendOS, cliCmd >>

\* $osRaw -match 'windows|win' ...
MatchOS(osRaw) == IF osRaw = "Microsoft Windows 11" THEN "windows" ELSE ""

\* Test-OSCompatibility: ok, the detected OS and the message.
OSCompatibility(systemStatus) ==
    LET detectedOS == IF systemStatus.detected_os # "" THEN systemStatus.detected_os
                      ELSE MatchOS(systemStatus.system_os)
    IN  IF ~systemStatus.success
        THEN << FALSE, "unknown", "Unable to retrieve system information from backend." >>
        ELSE IF detectedOS = ""
        THEN << FALSE, "unknown", "OS not detected during initialization." >>
        ELSE IF detectedOS # "windows"
        THEN << FALSE, detectedOS, "This is the Windows CLI." >>
        ELSE << TRUE, detectedOS, "OS compatibility verified" >>

\* Test-OSCompatibility and what Show-MainMenu and Test-RequireReady do
\* with it.
TestOSCompatibility ==
    \E output \in Outputs(SystemStatusReplies) :
        LET os == OSCompatibility(InvokeBackendAPI(output))
        IN  /\ cliPc = "checkOS"
            /\ cliResult' = Returned(output)
            /\ IF ~os[1]
               THEN Exit(1, os[3])
               ELSE /\ cliPc' = CASE cliCmd = ""          -> "menu"
                                  [] cliCmd = "--upgrade" -> "upgrade"
                                  [] OTHER                -> "show"
                    /\ UNCHANGED << cliExit, cliOut >>
            /\ UNCHANGED << guiVars, diskInitialized, backendActivated, backendOS, cliCmd >>

\* --status and --list: Show-Status, Show-ListTools, exit 0.
CliShow ==
    /\ cliPc = "show"
    /\ Exit(0, IF cliCmd = "--status" THEN "SYSTEM STATUS" ELSE "AVAILABLE TOOLS")
    /\ UNCHANGED << guiVars, diskInitialized, backendActivated, backendOS, cliCmd,
                    cliResult >>

\* The main menu: 1 (list), 8 (uninitialize), 9 (upgrade) and 0 (exit).
MenuChoice ==
    \E choice \in { "1", "8", "9", "0" } :
        /\ cliPc = "menu"
        /\ CASE choice = "1" -> /\ cliOut' = "AVAILABLE TOOLS"
                                /\ UNCHANGED << cliPc, cliExit >>
             [] choice = "8" -> cliPc' = "uninit" /\ UNCHANGED << cliOut, cliExit >>
             [] choice = "9" -> cliPc' = "upgrade" /\ UNCHANGED << cliOut, cliExit >>
             [] OTHER        -> Exit(0, "Exiting Kjer CLI. Goodbye!")
        /\ UNCHANGED << guiVars, diskInitialized, backendActivated, backendOS, cliCmd,
                        cliResult >>

\* What the user types at the License Key prompt, after Trim().ToUpper().
CliKeyInputs == { "", "KJER-123", "7F3A-9C21-44DE-1B2C-0A9F" }

\* $keyStripped.Length -ne 20 -or $keyStripped -notmatch '^[A-Z0-9]+$'
ValidKeyFormat(raw) == raw = "7F3A-9C21-44DE-1B2C-0A9F"

\* Invoke-UpgradeKjer up to the prompt "Reinitialize now?".
InvokeUpgradeKjer ==
    \E raw \in CliKeyInputs, output \in Outputs(CliActivateReplies) :
        LET result == InvokeBackendAPI(output)
            currentVersion == "1.0.0"
            newVersion == result.license_version
        IN  /\ cliPc = "upgrade"
            /\ IF raw = ""
               THEN /\ output.kind = "empty"
                    /\ Return("Upgrade cancelled.")
                    /\ UNCHANGED << backendActivated, cliResult >>
               ELSE IF ~ValidKeyFormat(raw)
               THEN /\ output.kind = "empty"
                    /\ Return("Invalid license key format.")
                    /\ UNCHANGED << backendActivated, cliResult >>
               ELSE /\ cliResult' = Returned(output)
                    /\ backendActivated' =
                          (backendActivated \/ (output.kind = "json" /\ result.success))
                    /\ IF ~result.success
                       THEN Return(IF result.message # "" THEN result.message
                                   ELSE result.error)
                       ELSE IF newVersion # "" /\ newVersion # currentVersion
                       THEN /\ cliPc' = "confirmReinit"
                            /\ cliOut' = "license activated!"
                            /\ UNCHANGED cliExit
                       ELSE Return("License reactivated successfully.")
            /\ UNCHANGED << guiVars, diskInitialized, backendOS, cliCmd >>

\* The answer to "Reinitialize now?" and Invoke-Reinitialize.
ConfirmReinit ==
    \E confirm \in { "yes", "no" }, output \in Outputs(ReinitializeReplies) :
        LET reinitResult == InvokeBackendAPI(output)
        IN  /\ cliPc = "confirmReinit"
            /\ IF confirm # "yes"
               THEN /\ output.kind = "empty"
                    /\ Return("Skipped. Your license is active.")
                    /\ UNCHANGED cliResult
               ELSE /\ cliResult' = Returned(output)
                    /\ Return(IF reinitResult.success
                              THEN "Kjer has been upgraded and reinitialized successfully."
                              ELSE "License activated but reinitialization encountered an issue.")
            /\ UNCHANGED << guiVars, diskInitialized, backendActivated, backendOS, cliCmd >>

\* Invoke-UnInitializeKjer: both confirmations, Remove-Item $InitFlag,
\* Invoke-Uninitialize, exit 0.
InvokeUnInitializeKjer ==
    \E confirmed \in BOOLEAN, output \in Outputs(UninitializeReplies) :
        LET result == InvokeBackendAPI(output)
        IN  /\ cliPc = "uninit"
            /\ IF ~confirmed
               THEN /\ output.kind = "empty"
                    /\ Return("Uninitialize cancelled.")
                    /\ UNCHANGED << diskInitialized, backendActivated, cliResult >>
               ELSE /\ diskInitialized' = FALSE
                    /\ cliResult' = Returned(output)
                    /\ backendActivated' =
                          (backendActivated /\ ~(output.kind = "json" /\ result.success))
                    /\ Exit(0, IF result.success
                               THEN "Kjer has been uninitialized successfully."
                               ELSE "Local state cleared.")
            /\ UNCHANGED << guiVars, backendOS, cliCmd >>

\* Invoke-UninstallKjer: the confirmation, the removal of the state
\* directory, Invoke-Uninitialize; the entry point exits with 0.
InvokeUninstallKjer ==
    \E confirmed \in BOOLEAN, output \in Outputs(UninitializeReplies) :
        LET result == InvokeBackendAPI(output)
        IN  /\ cliPc = "uninstall"
            /\ IF ~confirmed
               THEN /\ output.kind = "empty"
                    /\ Exit(0, "Uninstall cancelled.")
                    /\ UNCHANGED << diskInitialized, backendActivated, cliResult >>
               ELSE /\ diskInitialized' = FALSE
                    /\ cliResult' = Returned(output)
                    /\ backendActivated' =
                          (backendActivated /\ ~(output.kind = "json" /\ result.success))
                    /\ Exit(0, "Kjer has been uninstalled.")
            /\ UNCHANGED << guiVars, backendOS, cliCmd >>

\* The Windows CLI on an installation in any state of the gate: the
\* backend holds an activation or none, a detected OS or none.
InitCLIAny ==
    /\ InitStorage
    /\ InitRenderer
    /\ toolFlag = FALSE
    /\ installState = ""
    /\ kterInitialized = FALSE
    /\ probe = "random"
    /\ diskInitialized \in BOOLEAN
    /\ backendActivated \in BOOLEAN
    /\ backendOS \in { "", "windows", "linux" }
    /\ cliPc = "off"
    /\ cliCmd = ""
    /\ cliOut = ""
    /\ cliExit = NoExit
    /\ cliResult = [ raw |-> "", success |-> FALSE ]

NextCLI ==
    \/ CliStart
    \/ TestInitialization
    \/ TestOSCompatibility
    \/ CliShow
    \/ MenuChoice
    \/ InvokeUpgradeKjer
    \/ ConfirmReinit
    \/ InvokeUnInitializeKjer
    \/ InvokeUninstallKjer

SpecCLI == InitCLIAny /\ [][NextCLI]_vars

\* ------------------------------------------------------------- properties
\* The timer at the head of the queue is of the kind and fires in this step.
Fires(kind) ==
    /\ timers # << >>
    /\ Head(timers).delay = 0
    /\ Head(timers).kind = kind
    /\ timers' = IF kind = "reload" THEN << >> ELSE Tail(timers)

\* A scan passed both abort checks in this step; a defend run started.
ScanStarted == Len(scans') = Len(scans) + 1
DefendStarted == Len(defends') = Len(defends) + 1

\* The InstalledSet and the catalog keys of its tools.
InstalledSet == IF toolFlag THEN CatalogNames ELSE { }
InstalledKeys == { k \in CatalogKeys : ToolName(k) \in InstalledSet }

\* The scan phases in declared order, each with the role that feeds it.
DeclaredPhases ==
    << << "NETWORK ANALYSIS", "network_scan" >>,
       << "VULNERABILITY SCAN", "vuln_scan" >>,
       << "MALWARE & EDR", "malware_scan" >>,
       << "FILE INTEGRITY", "integrity_scan" >>,
       << "MEMORY FORENSICS", "memory_scan" >>,
       << "COMPLIANCE & AUDIT", "compliance_scan" >>,
       << "SIEM & LOG INGEST", "siem" >> >>

HoldsRole(key, role) == key \in Range(TOOL_ROLES[role])

\* The tools of a role, of those installed, in catalog declaration order.
RoleInCatalogOrder(keys, role) ==
    SelectSeq(TOOLS_DATABASE, LAMBDA k : k \in keys /\ HoldsRole(k, role))

InCatalogOrder(role) == RoleInCatalogOrder(InstalledKeys, role)

\* The dispatch of one scan as the claim fixes it: every phase that has an
\* installed tool, its header, then its tools; the summary last. Each step
\* is << kind, phase, tool >>.
RECURSIVE DispatchFrom(_, _)
DispatchFrom(keys, i) ==
    IF i > Len(DeclaredPhases) THEN << << "summary", "", "" >> >>
    ELSE LET name == DeclaredPhases[i][1]
             tools == RoleInCatalogOrder(keys, DeclaredPhases[i][2])
         IN  (IF tools = << >> THEN << >>
              ELSE << << "section", name, "" >> >>
                   \o [ j \in 1..Len(tools) |-> << "result", name, ToolName(tools[j]) >> ])
             \o DispatchFrom(keys, i + 1)

DispatchTable == [ keys \in { { }, CatalogKeys } |-> DispatchFrom(keys, 1) ]

ExpectedDispatch == DispatchTable[InstalledKeys]

ScanPhaseNames == { DeclaredPhases[i][1] : i \in 1..Len(DeclaredPhases) }

\* The dispatch steps of scan run that the Security Monitor shows.
IsDispatchOf(e, run) ==
    /\ e.run = run
    /\ \/ e.type = "summary"
       \/ e.type \in { "section", "result" } /\ e.text \in ScanPhaseNames

Logged(run) ==
    LET es == SelectSeq(monitor, LAMBDA e : IsDispatchOf(e, run))
    IN  [ j \in 1..Len(es) |->
            << es[j].type, IF es[j].type = "summary" THEN "" ELSE es[j].text, es[j].tool >> ]

IsSlice(part, whole) ==
    \E k \in 0..(Len(whole) - Len(part)) : part = SubSeq(whole, k + 1, k + Len(part))

\* C5: in every scan run the phase headers, probes and summary are
\* dispatched in the one fixed order (declared phase order, header first,
\* tools in catalog order, summary last), and under a deterministic probe
\* a scan that finalizes while the result of another is in the store holds
\* the same sequence of findings as that result.
C5_FixedDispatchOrder ==
    [][ /\ \A run \in 1..Len(scans') :
              IsSlice(Logged(run), ExpectedDispatch)'
        /\ (Fires("scanSummary") /\ probe \in Stubs /\ KjerLastScanResults # NULL)
              => scans'[Head(timers).run].results.findings
                   = scans[KjerLastScanResults].results.findings ]_vars

\* A scan has logged its whole dispatch, two tools of one phase included.
C5_Witness ==
    /\ probe = "worst"
    /\ Len(scans) = 2
    /\ KjerLastScanResults = 2
    /\ Logged(2) = ExpectedDispatch
    /\ Len(scans[2].results.findings) > 1

NoCapability ==
    \/ InstalledSet = { }
    \/ \A i \in 1..Len(DeclaredPhases) : InCatalogOrder(DeclaredPhases[i][2]) = << >>

\* C6: with an empty InstalledSet, or one without any scan-phase role, a
\* scan dispatches no phase header and no probe, leaves the Result Store
\* as it was, and what it logs is a warning.
C6_AbortLeavesStore ==
    [][ NoCapability
          => /\ UNCHANGED << KjerLastScanResults, scans, timers, monitor >>
             /\ \A i \in 1..Len(timers) : timers[i].kind \notin ScanKinds
             /\ activity' # activity => activity'.level = "warning" ]_vars

\* A scan was called with nothing installed and aborted.
C6_Witness ==
    /\ InstalledSet = { }
    /\ activity = Activity("Scan aborted - no security tools installed", "warning")
    /\ KjerLastScanResults = NULL
    /\ timers = << >>

\* The tools scheduled for a scan.
Scheduled(scan) ==
    UNION { Range(scan.phases[i].tools) : i \in 1..Len(scan.phases) }

\* C7: a non-absent value of the Result Store is a finalized ScanResult:
\* completedAt is set, toolsRun is the number of distinct tools scheduled
\* for that scan, no probe of that scan is pending, and the result does
\* not change while it is in the store.
C7_StoredResultFinalized ==
    [][ /\ KjerLastScanResults' # NULL
              => LET scan == scans'[KjerLastScanResults']
                 IN  /\ scan.results.completedAt
                     /\ scan.results.toolsRun = Cardinality(Scheduled(scan))
                     /\ \A i \in 1..Len(timers') :
                            ~(timers'[i].kind = "scanProbe"
                              /\ timers'[i].run = KjerLastScanResults')
        /\ (KjerLastScanResults # NULL /\ KjerLastScanResults' = KjerLastScanResults)
              => scans'[KjerLastScanResults] = scans[KjerLastScanResults] ]_vars

\* A finalized result with findings is stored while another scan runs.
C7_Witness ==
    /\ KjerLastScanResults # NULL
    /\ scans[KjerLastScanResults].results.toolsRun = 5
    /\ Len(scans[KjerLastScanResults].results.findings) > 0
    /\ ScanRunning

\* The counters of a result.
Counters(r) == << r.critical, r.high, r.medium, r.low >>

\* The counters after a finding of the level was counted.
Bump(c, level, flagged) ==
    CASE level = "critical" -> << c[1] + 1, c[2], c[3], c[4] >>
      [] level = "error"    -> << c[1], c[2] + 1, c[3], c[4] >>
      [] level = "warning"  -> << c[1], c[2], c[3] + 1, c[4] >>
      [] level = "info" /\ flagged -> << c[1], c[2], c[3], c[4] + 1 >>
      [] OTHER              -> c

\* C8: a completed probe adds exactly one to toolsRun; it appends at most
\* one finding, of the probed tool, and a finding increments exactly the
\* counter of its level (critical, error -> high, warning -> medium,
\* flagged info -> low), no finding leaves every counter as it was.
C8_ProbeAccounting ==
    [][ Fires("scanProbe")
          => LET t == Head(timers)
                 old == scans[t.run].results
                 new == scans'[t.run].results
             IN  /\ new.toolsRun = old.toolsRun + 1
                 /\ \/ /\ new.findings = old.findings
                       /\ Counters(new) = Counters(old)
                    \/ \E f \in Range(new.findings) :
                          /\ new.findings = Append(old.findings, f)
                          /\ f.key = t.tool
                          /\ Counters(new) = Bump(Counters(old), f.level, FindingFlagged(f)) ]_vars

\* A scan counted an error, a warning and a probe without finding.
C8_Witness ==
    \E run \in 1..Len(scans) :
        LET r == scans[run].results
        IN  /\ r.high = 1
            /\ r.medium = 1
            /\ r.toolsRun > Len(r.findings)
            /\ ~r.completedAt

\* The findings a live defend run reads.
Malware(f) == HoldsRole(f.key, "malware_scan")
Memory(f) == HoldsRole(f.key, "memory_scan")
Engaged(d, name) == \E i \in 1..Len(d.phases) : d.phases[i].name = name
Targeted(d) == d.live /\ d.scanResults # NULL /\ scans[d.scanResults].results.completedAt
RemediationInstalled == \E k \in InstalledKeys : HoldsRole(k, "av_remediate")

Matched ==
    [ name \in { "PHASE 1 - NETWORK & PERIMETER", "PHASE 2 - MALWARE CONTAINMENT",
                 "PHASE 3 - ACCESS CONTROL ENFORCEMENT", "PHASE 4 - FILE INTEGRITY",
                 "PHASE 5 - AUDIT HARDENING", "PHASE 6 - SIEM ALERT RULES" } |->
        CASE name = "PHASE 1 - NETWORK & PERIMETER" ->
                 InstalledKeys \cap { "ufw", "fail2ban", "suricata" }
          [] name = "PHASE 2 - MALWARE CONTAINMENT" ->
                 { k \in InstalledKeys : HoldsRole(k, "av_remediate") }
          [] name = "PHASE 3 - ACCESS CONTROL ENFORCEMENT" ->
                 InstalledKeys \cap { "apparmor", "selinux" }
          [] name = "PHASE 4 - FILE INTEGRITY" ->
                 { k \in InstalledKeys : HoldsRole(k, "integrity_scan") }
          [] name = "PHASE 5 - AUDIT HARDENING" ->
                 InstalledKeys \cap { "lynis", "auditd" }
          [] OTHER ->
                 { k \in InstalledKeys : HoldsRole(k, "siem") } ]

\* C10: a defend run that starts while no completed ScanResult is in the
\* Result Store runs in broad mode and engages exactly the defense phases
\* whose matched set of installed tools is non-empty; one that starts
\* while a completed ScanResult is in the store does not run in broad mode.
C10_BroadModeIffNoResult ==
    [][ DefendStarted
          => LET d == defends'[Len(defends')]
                 completed == /\ KjerLastScanResults # NULL
                              /\ scans[KjerLastScanResults].results.completedAt
             IN  /\ d.broadMode <=> ~completed
                 /\ ~completed
                      => \A name \in DOMAIN Matched :
                             Engaged(d, name) <=> Matched[name] # { } ]_vars

\* A broad-mode run without any result engaged Network & Perimeter.
C10_Witness ==
    \E i \in 1..Len(defends) :
        /\ defends[i].live
        /\ defends[i].broadMode
        /\ KjerLastScanResults = NULL
        /\ scans = << >>
        /\ Engaged(defends[i], "PHASE 1 - NETWORK & PERIMETER")

\* A suspended call of the function was registered, or resumed, in this step.
Called(fn) ==
    /\ Len(calls') = Len(calls) + 1
    /\ calls' = Append(calls, calls'[Len(calls')])
    /\ calls'[Len(calls')].fn = fn
Resumed(fn) == \E n \in 1..Len(calls) : calls[n].fn = fn /\ calls' = Resume(calls, n)

\* The page was loaded anew in this step.
PageLoads == calls' = << >> /\ timers' = << >> /\ activationStatus' = ""

\* C2 (as stated): while the installation is not initialized an install or
\* uninstall is rejected, no backend call is made for it, and a tool
\* operation that returns changes neither the InstalledSet nor the Result
\* Store.
C2_NotInitializedRejects ==
    [][ ~kterInitialized
          => /\ ~Called("installTool")
             /\ Resumed("installTool")
                  => UNCHANGED << installedToolsLS, KjerLastScanResults >> ]_vars

ActivateSucceeded ==
    /\ Resumed("activateKjer")
    /\ activationStatus' \in { "Activation successful!", "Reinitialize Now" }

DefendCompletes ==
    /\ Fires("defSummary")
    /\ Len(monitor') = Len(monitor) + 1
    /\ monitor'[Len(monitor')].type = "defSummary"

\* C11: the posture a defend run reports at its end is NO DEFENSIVE TOOLS
\* INSTALLED when it took no action; otherwise HARDENED (preventive) when
\* the findings it used are empty; otherwise INCIDENT RESPONSE ACTIVE when
\* the ScanResult it used holds a critical finding; otherwise HARDENED.
C11_PostureAtCompletion ==
    [][ DefendCompletes
          => LET d == defends[Head(timers).run]
                 used == IF d.scanResults # NULL
                            /\ scans[d.scanResults].results.completedAt
                         THEN scans[d.scanResults].results.findings
                         ELSE << >>
                 posture == monitor'[Len(monitor')].text
             IN  posture =
                   IF d.actionsTotal = 0 THEN "NO DEFENSIVE TOOLS INSTALLED"
                   ELSE IF used = << >> THEN "HARDENED (preventive)"
                   ELSE IF \E i \in 1..Len(used) : used[i].level = "critical"
                        THEN "INCIDENT RESPONSE ACTIVE"
                   ELSE "HARDENED" ]_vars

\* A defend run on a ScanResult whose one finding is a critical ClamAV
\* finding reported INCIDENT RESPONSE ACTIVE.
C11_Witness ==
    /\ KjerLastScanResults # NULL
    /\ LET findings == scans[KjerLastScanResults].results.findings
       IN  /\ Len(findings) = 1
           /\ findings[1].key = "clamav"
           /\ findings[1].level = "critical"
    /\ "clamav" \in InstalledKeys
    /\ monitor # << >>
    /\ monitor[Len(monitor)].type = "defSummary"
    /\ monitor[Len(monitor)].text = "INCIDENT RESPONSE ACTIVE"

\* activateKjer resumed with a failure in this step; it returned before
\* the backend was called.
ActivateFailed == Resumed("activateKjer") /\ ~ActivateSucceeded /\ ~PageLoads
ActivateRejectedKey ==
    /\ activationStatus' # activationStatus
    /\ activationStatus' = "Invalid license key format"

\* C12: an activate that fails, because the license backend answers
\* success = false or because the key is rejected before the backend is
\* called, leaves the stored license (key, type, version, activated flag,
\* license file) and the initialized flag as they were, and what is
\* reported after a backend failure is a message of the backend
\* ("undefined" when its reply carries none).
C12_FailedActivateLeavesState ==
    [][ /\ ActivateFailed
              => /\ UNCHANGED << licenseVars, kterInitialized, diskInitialized, timers >>
                 /\ activationStatus' \in AuthorityMessages \cup { "undefined" }
        /\ ActivateRejectedKey
              => UNCHANGED << licenseVars, kterInitialized, diskInitialized, timers,
                              calls >> ]_vars

\* A license is stored and a later activate was answered with a message of
\* the backend.
C12_Witness ==
    /\ activationStatus \in AuthorityMessages
    /\ kterActivated
    /\ kterLicenseKey = "KJER-PRO-7F3A-9C21-44DE1"
    /\ kterVersion = "1.1.0"

\* The renderer started in this step: DOMContentLoaded ran
\* loadInstallStateIntoApp().
StartsUp ==
    /\ PageLoads
    /\ activity'.message \in { "System booting up...", "OS detected at install time",
                               "Initialization state restored from disk",
                               "License key restored from saved state" }

\* C14 (as stated): when ~/.kjer/install_state.json is absent, the reply of
\* read-install-state does not report initialized = true, and after a
\* startup kterInitialized is false whatever it was before.
C14_AbsentStateReadsUninitialized ==
    [][ StartsUp /\ installState = ""
          => /\ ~ReadInstallState(installState, diskInitialized).initialized
             /\ ~kterInitialized' ]_vars

\* C15 (as stated): initializeKjer called while initialized is true, in
\* the application and on disk, leaves both flags true whatever the outcome
\* of its steps, and changes neither the stored license nor the entries the
\* InstalledSet and the 'installedTools' store hold.
C15_InitializeIdempotent ==
    [][ /\ (kterInitialized /\ Called("initializeKjer")) => kterInitialized'
        /\ \A n \in 1..Len(calls) :
              ( /\ calls[n].fn = "initializeKjer"
                /\ calls[n].flag
                /\ calls' = Resume(calls, n)
                /\ ~StartsUp
                /\ kterInitialized /\ diskInitialized )
              => /\ kterInitialized'
                 /\ diskInitialized'
                 /\ UNCHANGED licenseVars
                 /\ InstalledSet' = InstalledSet
                 /\ installedToolsLS \subseteq installedToolsLS' ]_vars

\* resetApplicationState ran in this step.
Resets ==
    /\ activity' = Activity("Application state reset. License remains active on this system.",
                            "warning")
    /\ Len(timers') = Len(timers) + 1

\* C16 (as stated): a reset clears the initialized flag in the application
\* and on disk and leaves the detected os and the stored license as they
\* were.
C16_ResetKeepsOsAndLicense ==
    [][ Resets
          => /\ ~kterInitialized'
             /\ ~diskInitialized'
             /\ userOS' = userOS
             /\ UNCHANGED << licenseVars, installState >> ]_vars

\* C18 (as stated): when installTool(T) returns, the InstalledSet that
\* getInstalledTools reports holds T after a successful install, does not
\* hold T after a successful uninstall, and is what it was after a failure.
C18_InstallRecordsOutcome ==
    [][ \A n \in 1..Len(calls) :
          ( calls[n].fn = "installTool" /\ calls' = Resume(calls, n) /\ ~StartsUp )
          => IF activity'.level = "success"
             THEN (calls[n].arg \in InstalledSet') <=> ~calls[n].flag
             ELSE InstalledSet' = InstalledSet ]_vars

\* initializeKjer ran to its end in this step, syncPreInstalledTools
\* included, on an analysis that reports a key the catalog does not hold.
SyncedUnknownKey ==
    /\ \E n \in 1..Len(calls) :
           calls[n].fn = "initializeKjer" /\ calls' = Resume(calls, n)
    /\ ~StartsUp
    /\ Len(timers') = Len(timers) + 1
    /\ \E i \in 1..Len(systemAnalysis') :
           ToLowerCase(systemAnalysis'[i]) \notin CatalogKeys

FailedOutputs == { "throws", "empty", "text" }

\* What the CLI prints when it took a backend call for a success.
SuccessMessages ==
    { "License reactivated successfully.", "license activated!",
      "Kjer has been upgraded and reinitialized successfully.",
      "Kjer has been uninitialized successfully." }

\* C13: a backend call that failed (it threw, printed nothing, or printed
\* text that is not well-formed JSON) is returned by Invoke-BackendAPI as
\* a failure result, success = false, and the CLI reports no activation,
\* reinitialization or uninitialization as done after it.
C13_FailedCallIsFailure ==
    [][ (cliResult' # cliResult /\ cliResult'.raw \in FailedOutputs)
            => (~cliResult'.success /\ cliOut' \notin SuccessMessages) ]_vars

\* What the CLI prints when it rejects a command for the gate.
NotInitializedMessages == { "KJER NOT INITIALIZED", "Kjer is not initialized." }

\* C17: a step of a Windows-CLI process (the menu, --status, --list,
\* --upgrade, --uninstall, --uninitialize) that is taken while the backend
\* holds no activation rejects the command: exit code 1, a NotInitialized
\* message, the flag file and the backend state as they were; and the OS
\* check of a process whose detected OS is not windows exits with 1 and a
\* message that is not the NotInitialized one.
C17_GatedCommandsRejected ==
    [][ /\ (cliPc # "off" /\ ~backendActivated)
            => /\ cliPc' = "off"
               /\ cliExit' = 1
               /\ cliOut' \in NotInitializedMessages
               /\ UNCHANGED << diskInitialized, backendActivated >>
        /\ (cliPc = "checkOS" /\ backendOS # "windows")
            => /\ cliPc' = "off"
               /\ cliExit' = 1
               /\ cliOut' \notin NotInitializedMessages ]_vars

\* The role that feeds a scan phase.
RoleOf(name) ==
    DeclaredPhases[CHOOSE i \in 1..Len(DeclaredPhases) : DeclaredPhases[i][1] = name][2]

\* C21: every Finding of a ScanResult carries one of the seven declared
\* scan phase names, and its tool was scheduled for that phase when the
\* scan started: the tool was in the InstalledSet then and TOOL_ROLES
\* lists it under the role mapped to the phase.
C21_FindingPhaseAndRole ==
    [][ /\ ScanStarted
              => LET scan == scans'[Len(scans')]
                 IN  \A i \in 1..Len(scan.phases) :
                        /\ scan.phases[i].name \in ScanPhaseNames
                        /\ \A k \in Range(scan.phases[i].tools) :
                              /\ k \in InstalledKeys
                              /\ HoldsRole(k, RoleOf(scan.phases[i].name))
        /\ \A run \in 1..Len(scans') :
              \A f \in Range(scans'[run].results.findings) :
                 /\ f.phase \in ScanPhaseNames
                 /\ f.tool = ToolName(f.key)
                 /\ HoldsRole(f.key, RoleOf(f.phase))
                 /\ \E i \in 1..Len(scans'[run].phases) :
                        /\ scans'[run].phases[i].name = f.phase
                        /\ f.key \in Range(scans'[run].phases[i].tools) ]_vars

\* A published ScanResult holds findings of two phases, one of them of a
\* tool that also holds a defensive role.
C21_Witness ==
    /\ KjerLastScanResults # NULL
    /\ LET fs == scans[KjerLastScanResults].results.findings
       IN  /\ \E i \in 1..Len(fs) : fs[i].key = "suricata" /\ fs[i].phase = "NETWORK ANALYSIS"
           /\ \E i \in 1..Len(fs) : fs[i].key = "volatility" /\ fs[i].phase = "MEMORY FORENSICS"

\* C22: in every state of a ScanResult, while its scan runs and after it
\* is published, critical + high + medium + low is at most the number of
\* its findings.
C22_CountersWithinFindings ==
    \A run \in 1..Len(scans) :
        LET r == scans[run].results
        IN  r.critical + r.high + r.medium + r.low <= Len(r.findings)

\* A published ScanResult holds a critical and a warning finding, and three
\* of its five probes found nothing.
C22_Witness ==
    /\ KjerLastScanResults # NULL
    /\ LET r == scans[KjerLastScanResults].results
       IN  /\ r.completedAt
           /\ r.critical = 1
           /\ r.medium = 1
           /\ Len(r.findings) = 2
           /\ r.toolsRun = 5

\* The defense phases in declared order.
DefensePhaseNames ==
    << "PHASE 1 - NETWORK & PERIMETER", "PHASE 2 - MALWARE CONTAINMENT",
       "PHASE 3 - ACCESS CONTROL ENFORCEMENT", "PHASE 4 - FILE INTEGRITY",
       "PHASE 5 - AUDIT HARDENING", "PHASE 6 - SIEM ALERT RULES" >>

\* The tools of the keys that a defense phase matches.
MatchedOf(keys, name) ==
    CASE name = "PHASE 1 - NETWORK & PERIMETER" -> keys \cap { "ufw", "fail2ban", "suricata" }
      [] name = "PHASE 2 - MALWARE CONTAINMENT" -> { k \in keys : HoldsRole(k, "av_remediate") }
      [] name = "PHASE 3 - ACCESS CONTROL ENFORCEMENT" -> keys \cap { "apparmor", "selinux" }
      [] name = "PHASE 4 - FILE INTEGRITY" -> { k \in keys : HoldsRole(k, "integrity_scan") }
      [] name = "PHASE 5 - AUDIT HARDENING" -> keys \cap { "lynis", "auditd" }
      [] OTHER -> { k \in keys : HoldsRole(k, "siem") }

\* The dispatch of a defend run that engages the phases named: in declared
\* order each engaged phase, its header, then its matched tools in catalog
\* declaration order; the summary last. Each step is << kind, phase, tool >>.
RECURSIVE DefendDispatchFrom(_, _, _)
DefendDispatchFrom(keys, engaged, i) ==
    IF i > Len(DefensePhaseNames) THEN << << "defSummary", "", "" >> >>
    ELSE LET name == DefensePhaseNames[i]
             tools == SelectSeq(TOOLS_DATABASE, LAMBDA k : k \in MatchedOf(keys, name))
         IN  (IF name \notin engaged THEN << >>
              ELSE << << "section", name, "" >> >>
                   \o [ j \in 1..Len(tools) |-> << "result", name, ToolName(tools[j]) >> ])
             \o DefendDispatchFrom(keys, engaged, i + 1)

DefendDispatchTable ==
    [ keys \in { { }, CatalogKeys }, engaged \in SUBSET Range(DefensePhaseNames) |->
        DefendDispatchFrom(keys, engaged, 1) ]

ExpectedDefendDispatch(engaged) == DefendDispatchTable[InstalledKeys, engaged]

EngagedNames(d) == { d.phases[i].name : i \in 1..Len(d.phases) }

\* The dispatch steps of defend run that the Security Monitor shows.
IsDefendDispatchOf(e, run) ==
    /\ e.run = run
    /\ \/ e.type = "defSummary"
       \/ e.type \in { "section", "result" } /\ e.text \in Range(DefensePhaseNames)

LoggedDefend(run) ==
    LET es == SelectSeq(monitor, LAMBDA e : IsDefendDispatchOf(e, run))
    IN  [ j \in 1..Len(es) |->
            << es[j].type, IF es[j].type = "defSummary" THEN "" ELSE es[j].text,
               es[j].tool >> ]

\* C23: in every defend run the engaged phases are dispatched in the
\* declared order (Network & Perimeter, Malware Containment, Access Control
\* Enforcement, File Integrity, Audit Hardening, SIEM Alert Rules), each
\* header before the actions of its tools, the tools of a phase in catalog
\* declaration order, and the defense summary after every action: what a
\* run has logged is a slice of that dispatch, and no timer of the run is
\* pending when its summary is logged.
C23_DefendDispatchOrder ==
    [][ /\ \A run \in 1..Len(defends') :
              defends'[run].live
                => IsSlice(LoggedDefend(run)', ExpectedDefendDispatch(EngagedNames(defends'[run])))
        /\ DefendCompletes
              => \A run \in { Head(timers).run } :
                    LET logged == LoggedDefend(run)'
                    IN  /\ IsSlice(logged, ExpectedDefendDispatch(EngagedNames(defends[run])))
                        /\ logged[Len(logged)][1] = "defSummary"
                        /\ \A i \in 1..Len(timers') :
                               ~(timers'[i].kind \in DefendKinds /\ timers'[i].run = run) ]_vars

\* A broad-mode run has logged its whole dispatch: two tools in Network &
\* Perimeter, two in Malware Containment, one in SIEM Alert Rules.
C23_Witness ==
    /\ toolFlag
    /\ defends # << >>
    /\ monitor # << >>
    /\ monitor[Len(monitor)].type = "defSummary"
    /\ LoggedDefend(1) =
         ExpectedDefendDispatch({ "PHASE 1 - NETWORK & PERIMETER",
                                  "PHASE 2 - MALWARE CONTAINMENT",
                                  "PHASE 6 - SIEM ALERT RULES" })
    /\ Len(LoggedDefend(1)) = 9

\* The number of tool dispatches the phases of a defend run hold.
RECURSIVE Dispatches(_, _)
Dispatches(phases, i) ==
    IF i > Len(phases) THEN 0 ELSE Len(phases[i].tools) + Dispatches(phases, i + 1)

RECURSIVE SnapshotSteps(_, _, _)
SnapshotSteps(phases, i, kinds) ==
    IF i > Len(phases) THEN << << kinds[3], "", "" >> >>
    ELSE << << kinds[1], phases[i].name, "" >> >>
         \o [ j \in 1..Len(phases[i].tools) |->
                << kinds[2], phases[i].name, phases[i].tools[j] >> ]
         \o SnapshotSteps(phases, i + 1, kinds)

ScanStepKinds == << "scanSection", "scanProbe", "scanSummary" >>
DefendStepKinds == << "defSection", "defAction", "defSummary" >>

\* The pending callbacks in firing order, without their delays; those of
\* one run; those of every other run.
Steps(ts) == [ j \in 1..Len(ts) |-> << ts[j].kind, ts[j].run, ts[j].phase, ts[j].tool >> ]

StepsOf(ts, run, kinds) ==
    LET own == SelectSeq(ts, LAMBDA t : t.kind \in Range(kinds) /\ t.run = run)
    IN  [ j \in 1..Len(own) |-> << own[j].kind, own[j].phase, own[j].tool >> ]

StepsBeside(ts, run, kinds) ==
    Steps(SelectSeq(ts, LAMBDA t : ~(t.kind \in Range(kinds) /\ t.run = run)))

\* A step of the tool box or the settings: a tool card is clicked, the
\* backend replies to an install or uninstall, the cache is cleared.
ToolBoxStep == toolVars' # toolVars \/ calls' # calls

\* C25: a scan or defend run works on the view it took when it started.
\* The tools it took were installed then and its start registers exactly
\* the steps of its phases, in their order; afterwards the pending steps
\* change only in that the one due fires, whatever else happens, and the
\* phases a run took stay as they are while a step of it is pending; an
\* install, an uninstall or a clearing of the cache
\* during the run leaves every pending step and every result as it was,
\* and each probe or action then runs for its tool whether that tool is
\* still installed or not; a defend run keeps the findings and the threat
\* context it read at its start when a new scan starts during it.
C25_RunsWorkOnStartView ==
    [][ /\ ScanStarted
              => \A run \in { Len(scans') } :
                    /\ Scheduled(scans'[run]) \subseteq InstalledKeys
                    /\ StepsOf(timers', run, ScanStepKinds)
                         = SnapshotSteps(scans'[run].phases, 1, ScanStepKinds)
                    /\ StepsBeside(timers', run, ScanStepKinds) = Steps(timers)
        /\ DefendStarted
              => \A run \in { Len(defends') } :
                    /\ StepsOf(timers', run, DefendStepKinds)
                         = SnapshotSteps(defends'[run].phases, 1, DefendStepKinds)
                    /\ StepsBeside(timers', run, DefendStepKinds) = Steps(timers)
        /\ (~ScanStarted /\ ~DefendStarted)
              => \/ Steps(timers') = Steps(timers)
                 \/ timers # << >> /\ Head(timers).delay = 0 /\ timers' = Tail(timers)
        /\ \A run \in 1..Len(scans) :
              (\E i \in 1..Len(timers') : timers'[i].kind \in ScanKinds /\ timers'[i].run = run)
                => scans'[run].phases = scans[run].phases
        /\ \A run \in 1..Len(defends) :
              (defends[run].live /\ defends'[run].live)
                => /\ defends'[run].phases = defends[run].phases
                   /\ defends'[run].context = defends[run].context
                   /\ defends'[run].scanResults = defends[run].scanResults
                   /\ defends[run].hasScanData
                        => /\ scans'[defends[run].scanResults].results
                                = scans[defends[run].scanResults].results
                           /\ defends[run].context
                                = ThreatContext(scans'[defends[run].scanResults].results.findings)
        /\ ToolBoxStep => UNCHANGED << timers, scans, defends, KjerLastScanResults >>
        /\ Fires("scanProbe")
              => \A t \in { Head(timers) } :
                    /\ scans'[t.run].results.toolsRun = scans[t.run].results.toolsRun + 1
                    /\ Len(monitor') = Len(monitor) + 1
                    /\ monitor'[Len(monitor')].tool = ToolName(t.tool)
        /\ Fires("defAction")
              => \A t \in { Head(timers) } :
                    /\ defends'[t.run].actionsTotal = defends[t.run].actionsTotal + 1
                    /\ Len(monitor') = Len(monitor) + 1
                    /\ monitor'[Len(monitor')].tool = ToolName(t.tool) ]_vars

\* The cache was cleared and UFW installed while probes of a second scan
\* are pending and a defend run that read the first ScanResult goes on.
C25_Witness ==
    /\ ~toolFlag
    /\ installedToolsLS = { "UFW" }
    /\ Len(scans) = 2
    /\ \E i \in 1..Len(timers) : timers[i].kind = "scanProbe" /\ timers[i].run = 2
    /\ \E run \in 1..Len(defends) :
          /\ defends[run].live
          /\ defends[run].hasScanData
          /\ defends[run].scanResults = 1
          /\ Len(scans[1].results.findings) > 0

\* A scan has callbacks pending.
ScanPending(run) ==
    \E i \in 1..Len(timers) : timers[i].kind \in ScanKinds /\ timers[i].run = run

\* C26: overlapping scans accumulate each into its own result: a probe
\* changes the result of its own scan and of no other, by one probe run
\* and at most one finding of the probed tool; the summary of a scan
\* publishes that scan's result, whose toolsRun is the number of its own
\* scheduled probes and whose findings are of its own scheduled tools, and
\* leaves the result of every scan still running as it was; the Result
\* Store then holds the result of the scan whose summary fired last.
C26_OverlappingScansSeparate ==
    [][ /\ Fires("scanProbe")
              => \A t \in { Head(timers) } :
                    /\ \A run \in 1..Len(scans) :
                          run # t.run => scans'[run] = scans[run]
                    /\ scans'[t.run].results.toolsRun = scans[t.run].results.toolsRun + 1
                    /\ Len(scans'[t.run].results.findings)
                         \in { Len(scans[t.run].results.findings),
                               Len(scans[t.run].results.findings) + 1 }
        /\ Fires("scanSummary")
              => \A t \in { Head(timers) } :
                    /\ KjerLastScanResults' = t.run
                    /\ scans'[t.run].results.completedAt
                    /\ scans'[t.run].results.toolsRun
                         = Cardinality(Scheduled(scans'[t.run]))
                    /\ scans'[t.run].results.findings = scans[t.run].results.findings
                    /\ \A f \in Range(scans'[t.run].results.findings) :
                          f.key \in Scheduled(scans'[t.run])
                    /\ Len(scans'[t.run].results.findings)
                         <= scans'[t.run].results.toolsRun
                    /\ \A run \in 1..Len(scans) :
                          (run # t.run /\ ScanPending(run)') => scans'[run] = scans[run] ]_vars

\* Two scans overlap and each has run probes of its own: the first has run
\* more of them and holds more findings than the second.
C26_Witness ==
    /\ Len(scans) = 2
    /\ ScanPending(1)
    /\ ScanPending(2)
    /\ scans[2].results.toolsRun > 0
    /\ scans[1].results.toolsRun > scans[2].results.toolsRun
    /\ Len(scans[2].results.findings) > 0
    /\ Len(scans[1].results.findings) > Len(scans[2].results.findings)

\* The callbacks of one kind a scan has pending, for one tool.
PendingCount(ts, run, kind, tool) ==
    Cardinality({ i \in 1..Len(ts) :
                    ts[i].kind = kind /\ ts[i].run = run /\ ts[i].tool = tool })

\* A scan is finalized: its summary has set completedAt and published the
\* result, every scheduled probe has run and no callback of it is pending.
Finalized(run) ==
    /\ run <= Len(scans)
    /\ ~ScanPending(run)
    /\ KjerLastScanResults = run
    /\ scans[run].results.completedAt
    /\ scans[run].results.toolsRun = Cardinality(Scheduled(scans[run]))

\* C27: a scan that passes both abort checks registers one probe callback
\* for each scheduled tool and one summary callback, and none later; a
\* probe runs while the result is not completed and is not pending
\* afterwards; the summary runs when every scheduled probe has run once,
\* finds the result not completed, sets completedAt, publishes the result
\* and leaves no callback of that scan pending; and every scan that has
\* callbacks pending eventually is finalized.
C27_ScanFinalizesOnce ==
    /\ [][ /\ ScanStarted
                 => \A run \in { Len(scans') } :
                       /\ PendingCount(timers', run, "scanSummary", "") = 1
                       /\ \A k \in CatalogKeys :
                             PendingCount(timers', run, "scanProbe", k)
                               = IF k \in Scheduled(scans'[run]) THEN 1 ELSE 0
           /\ \A run \in 1..MaxScans :
                 (~ScanPending(run) /\ ScanPending(run)')
                    => (ScanStarted /\ run = Len(scans'))
           /\ Fires("scanProbe")
                 => \A t \in { Head(timers) } :
                       /\ ~scans[t.run].results.completedAt
                       /\ ~scans'[t.run].results.completedAt
                       /\ PendingCount(timers', t.run, "scanProbe", t.tool) = 0
                       /\ PendingCount(timers', t.run, "scanSummary", "") = 1
           /\ Fires("scanSummary")
                 => \A t \in { Head(timers) } :
                       /\ ~scans[t.run].results.completedAt
                       /\ scans[t.run].results.toolsRun
                            = Cardinality(Scheduled(scans[t.run]))
                       /\ Finalized(t.run)' ]_vars
    /\ \A run \in 1..MaxScans : ScanPending(run) ~> Finalized(run)

\* A scan is finalized with every probe run while a later scan still has
\* callbacks pending.
C27_Witness ==
    /\ Finalized(1)
    /\ scans[1].results.toolsRun = 5
    /\ Len(scans) = 2
    /\ ScanPending(2)

\* C28 (as stated): when the reload that resetApplicationState scheduled
\* takes place, ~/.kjer/initialized has been removed, and the application
\* starts with initialized = false.
C28_ReloadAfterResetUninitialized ==
    [][ Fires("reload") => /\ ~diskInitialized
                           /\ ~kterInitialized' ]_vars

\* initializeKjer ended in its catch block in this step.
InitializeFailed ==
    /\ Resumed("initializeKjer")
    /\ activity' = Activity("Initialization failed", "error")

\* C29 (as stated): when initializeKjer ends in failure, initialized is
\* false in the application and ~/.kjer/initialized is absent, so that a
\* startup that follows does not restore initialized = true.
C29_FailedInitializeLeavesNoFlag ==
    [][ InitializeFailed => /\ ~kterInitialized'
                            /\ ~diskInitialized' ]_vars

====
